---- MODULE Spec2Model ----
(***************************************************************************)
(* The reconciliation store of futbol-base (scripts/db.py), the one-time   *)
(* import of the data-*.js files into it (scripts/import_existing.py) and  *)
(* the statements of the specification about them.                         *)
(*                                                                         *)
(* A table is the sequence of its rows in rowid order.  Rows of seasons,   *)
(* categories, groups, teams and goals are never deleted and every INSERT  *)
(* into them either adds a row or raises, so the AUTOINCREMENT id of such  *)
(* a row is its position in the sequence.  Rows of standings and scorers   *)
(* are deleted and re-inserted, and an ignored INSERT into matches uses up *)
(* an id (SQLite 3.40): these three tables carry their id column, and      *)
(* sqlite_sequence holds the largest id each of them has handed out.       *)
(***************************************************************************)
EXTENDS Integers, Sequences, FiniteSets, TLC

\* Python None / JSON null / SQL NULL in a TEXT column.
None == "None"
\* SQL NULL in an INTEGER column (home_score, away_score).
NULL == -1

Min(S) == CHOOSE x \in S : \A y \in S : x <= y
Range(s) == {s[i] : i \in DOMAIN s}

\* Python truthiness of an optional string: None and "" are false.
Truthy(v) == v # None /\ v # ""

(***************************************************************************)
(* The connection.  db is what the connection reads (its own uncommitted   *)
(* writes included), disk is what is committed, err says that an exception *)
(* is propagating, log lists the states committed so far by this call.     *)
(***************************************************************************)
EmptyDb ==
    [seasons |-> <<>>, categories |-> <<>>, groups |-> <<>>, teams |-> <<>>,
     standings |-> <<>>, matches |-> <<>>, goals |-> <<>>, scorers |-> <<>>,
     sqlite_sequence |-> [standings |-> 0, matches |-> 0, scorers |-> 0]]

get_connection(stored) ==
    [db |-> stored, disk |-> stored, err |-> FALSE, log |-> <<>>]

commit(c) == [c EXCEPT !.disk = c.db, !.log = Append(@, c.db)]

\* sqlite3.IntegrityError: nothing catches it, the process ends and the
\* open transaction is rolled back.
IntegrityError(c) == [c EXCEPT !.db = c.disk, !.err = TRUE]

(***************************************************************************)
(* scripts/db.py                                                           *)
(***************************************************************************)
\* An INSERT without the lookup by name.
InsertSeason(c, name, start_year, end_year, is_current) ==
    [c |-> commit([c EXCEPT !.db.seasons = Append(@,
                [name |-> name, start_year |-> start_year,
                 end_year |-> end_year,
                 is_current |-> IF is_current THEN 1 ELSE 0])]),
     id |-> Len(c.db.seasons) + 1]

get_or_create_season(c, name, start_year, end_year, is_current) ==
    LET row == {i \in DOMAIN c.db.seasons : c.db.seasons[i].name = name} IN
    IF row # {}
    THEN [c |-> c, id |-> Min(row)]
    ELSE [c |-> commit([c EXCEPT !.db.seasons = Append(@,
                    [name |-> name, start_year |-> start_year,
                     end_year |-> end_year,
                     is_current |-> IF is_current THEN 1 ELSE 0])]),
          id |-> Len(c.db.seasons) + 1]

get_or_create_category(c, name) ==
    LET row == {i \in DOMAIN c.db.categories : c.db.categories[i] = name} IN
    IF row # {}
    THEN [c |-> c, id |-> Min(row)]
    ELSE [c |-> commit([c EXCEPT !.db.categories = Append(@, name)]),
          id |-> Len(c.db.categories) + 1]

\* An INSERT without the lookup by name, into a table without UNIQUE(name).
InsertTeam(c, name, shield_filename) ==
    [c |-> [c EXCEPT !.db.teams = Append(@,
                [name |-> name, shield_filename |-> shield_filename])],
     id |-> Len(c.db.teams) + 1]

get_or_create_team(c, name, shield_filename) ==
    LET row == {i \in DOMAIN c.db.teams : c.db.teams[i].name = name} IN
    IF row # {}
    THEN [c |-> IF Truthy(shield_filename)
                THEN [c EXCEPT !.db.teams[Min(row)].shield_filename = shield_filename]
                ELSE c,
          id |-> Min(row)]
    ELSE IF name = None
    THEN [c |-> IntegrityError(c), id |-> 0]    \* teams.name is NOT NULL
    ELSE [c |-> [c EXCEPT !.db.teams = Append(@,
                    [name |-> name, shield_filename |-> shield_filename])],
          id |-> Len(c.db.teams) + 1]

\* The optional columns of a group, the keyword arguments of get_or_create_group.
GroupFields == {"name", "full_name", "phase", "island", "url", "current_jornada"}

\* An UPDATE that sets every keyword argument, None too.
SetEveryField(old, kwargs) ==
    [f \in DOMAIN old |-> IF f \in DOMAIN kwargs THEN kwargs[f] ELSE old[f]]

\* updates = {k: v for k, v in kwargs.items() if v is not None}, and the
\* UPDATE of the row with them.
UpdateGroup(old, kwargs) ==
    [f \in DOMAIN old |->
        IF f \in DOMAIN kwargs /\ kwargs[f] # None THEN kwargs[f] ELSE old[f]]

get_or_create_group(c, season_id, category_id, code, kwargs) ==
    LET row == {i \in DOMAIN c.db.groups :
                    /\ c.db.groups[i].season_id = season_id
                    /\ c.db.groups[i].category_id = category_id
                    /\ c.db.groups[i].code = code}
        patched == UpdateGroup(c.db.groups[Min(row)], kwargs)
        key == [season_id |-> season_id, category_id |-> category_id, code |-> code]
        new == [f \in DOMAIN key \cup GroupFields |->
                      IF f \in DOMAIN key THEN key[f]
                      ELSE IF f \in DOMAIN kwargs THEN kwargs[f] ELSE None]
    IN
    IF row # {}
    THEN [c |-> [c EXCEPT !.db.groups[Min(row)] = patched], id |-> Min(row)]
    ELSE [c |-> [c EXCEPT !.db.groups = Append(@, new)],
          id |-> Len(c.db.groups) + 1]

(***************************************************************************)
(* scripts/import_existing.py.  A JSON object is the sequence of its       *)
(* <<key, value>> pairs in file order (the order a Python dict iterates    *)
(* in); a JSON array is a sequence; a group object is a record, and        *)
(* dict.get reads a key that may be missing.                               *)
(***************************************************************************)
SEASON_NAME == "2025-2026"
SEASON_START == 2025
SEASON_END == 2026

(***************************************************************************)
(* The texts and numbers the data files of the model are written with.     *)
(***************************************************************************)
\* The largest score a match-detail key is written with.
MaxScore == 2

\* The group codes, in the order of SQLite's BINARY collation.
CodeOrder == <<"A", "B">>
CodeRank(code) == CHOOSE i \in DOMAIN CodeOrder : CodeOrder[i] = code

\* What stands before or after a scorer file's group name in a full name.
Affixes == {"", "LP "}

Get(g, k, default) == IF k \in DOMAIN g THEN g[k] ELSE default

\* UNIQUE(group_id, team_id) of standings.
StandingsConflict(d, gid, team_id) ==
    \E i \in DOMAIN d.standings :
        d.standings[i].group_id = gid /\ d.standings[i].team_id = team_id

\* INSERT INTO standings: a plain INSERT, a conflict raises.
InsertStanding(c, gid, team_id, row) ==
    IF StandingsConflict(c.db, gid, team_id)
    THEN IntegrityError(c)
    ELSE [c EXCEPT !.db.sqlite_sequence.standings = @ + 1,
                   !.db.standings = Append(@,
            [id |-> c.db.sqlite_sequence.standings + 1,
             group_id |-> gid, team_id |-> team_id, position |-> row[1],
             points |-> row[3], played |-> row[4], won |-> row[5],
             drawn |-> row[6], lost |-> row[7], gf |-> row[8], gc |-> row[9],
             gd |-> row[10]])]

\* No DELETE: the new rows are merged into the old ones.
KeepStandings(c, gid) == c

\* DELETE FROM standings WHERE group_id=?
DeleteStandings(c, gid) ==
    LET other(s) == s.group_id # gid IN
    [c EXCEPT !.db.standings = SelectSeq(@, other)]

\* for row in g.get("standings", []): [pos, team, pts, J, G, E, P, GF, GC, DF]
RECURSIVE ImportStandings(_, _, _)
ImportStandings(c, gid, rows) ==
    IF c.err \/ rows = <<>> THEN c
    ELSE LET team == get_or_create_team(c, Head(rows)[2], None) IN
         IF team.c.err THEN team.c
         ELSE ImportStandings(InsertStanding(team.c, gid, team.id, Head(rows)),
                              gid, Tail(rows))

\* UNIQUE(group_id, jornada, home_team_id, away_team_id) of matches.
MatchConflict(d, m) ==
    \E i \in DOMAIN d.matches :
        /\ d.matches[i].group_id = m.group_id
        /\ d.matches[i].jornada = m.jornada
        /\ d.matches[i].home_team_id = m.home_team_id
        /\ d.matches[i].away_team_id = m.away_team_id

\* A matches table without its UNIQUE constraint.
InsertMatch(c, m) ==
    LET id == c.db.sqlite_sequence.matches + 1 IN
    [c EXCEPT !.db.sqlite_sequence.matches = id,
              !.db.matches = Append(@, [id |-> id] @@ m)]

\* INSERT OR REPLACE INTO matches: the row of the key takes the new values.
InsertOrReplaceMatch(c, m) ==
    LET id == c.db.sqlite_sequence.matches + 1
        same(i) == /\ c.db.matches[i].group_id = m.group_id
                   /\ c.db.matches[i].jornada = m.jornada
                   /\ c.db.matches[i].home_team_id = m.home_team_id
                   /\ c.db.matches[i].away_team_id = m.away_team_id
    IN [c EXCEPT !.db.sqlite_sequence.matches = id,
                 !.db.matches =
                    IF \E i \in DOMAIN @ : same(i)
                    THEN [i \in DOMAIN @ |->
                            IF same(i) THEN [id |-> @[i].id] @@ m ELSE @[i]]
                    ELSE Append(@, [id |-> id] @@ m)]

\* INSERT OR IGNORE INTO matches: a row that breaks the UNIQUE or the
\* NOT NULL (jornada) constraint is skipped without an error; the id it
\* would have taken is used up all the same.
InsertOrIgnoreMatch(c, m) ==
    LET id == c.db.sqlite_sequence.matches + 1
        used == [c EXCEPT !.db.sqlite_sequence.matches = id]
    IN IF m.jornada = None \/ MatchConflict(c.db, m) THEN used
       ELSE [used EXCEPT !.db.matches = Append(@, [id |-> id] @@ m)]

\* for m in g.get("matches", []): [date, time, home, away, hs, as, venue]
RECURSIVE ImportMatches(_, _, _, _)
ImportMatches(c, gid, jornada, ms) ==
    IF c.err \/ ms = <<>> THEN c
    ELSE LET m == Head(ms)
             home == get_or_create_team(c, m[3], None)
             away == get_or_create_team(home.c, m[4], None)
         IN
         IF home.c.err THEN home.c
         ELSE IF away.c.err THEN away.c
         ELSE ImportMatches(
                InsertOrIgnoreMatch(away.c,
                    [group_id |-> gid, jornada |-> jornada, date |-> m[1],
                     time |-> m[2], home_team_id |-> home.id,
                     away_team_id |-> away.id, home_score |-> m[5],
                     away_score |-> m[6], venue |-> m[7]]),
                gid, jornada, Tail(ms))

\* The body of the loop over groups_data.
ImportGroup(c, season_id, cat_id, g) ==
    LET grp == get_or_create_group(c, season_id, cat_id, g.id,
                  [name |-> Get(g, "name", None),
                   full_name |-> Get(g, "fullName", None),
                   phase |-> Get(g, "phase", None),
                   island |-> Get(g, "island", None),
                   url |-> Get(g, "url", None),
                   current_jornada |-> Get(g, "jornada", None)])
        st == ImportStandings(DeleteStandings(grp.c, grp.id), grp.id,
                              Get(g, "standings", <<>>))
    IN ImportMatches(st, grp.id, Get(g, "jornada", ""), Get(g, "matches", <<>>))

RECURSIVE ImportGroups(_, _, _, _)
ImportGroups(c, season_id, cat_id, groups_data) ==
    IF c.err \/ groups_data = <<>> THEN c
    ELSE ImportGroups(ImportGroup(c, season_id, cat_id, Head(groups_data)),
                      season_id, cat_id, Tail(groups_data))

import_category(c, season_id, category_name, groups_data) ==
    LET cat == get_or_create_category(c, category_name)
        done == ImportGroups(cat.c, season_id, cat.id, groups_data)
    IN IF done.err THEN done ELSE commit(done)

\* SELECT id FROM groups WHERE season_id=? AND code=?, fetchone(): SQLite
\* searches the index of UNIQUE(season_id, category_id, code), so the first
\* row is the one of the smallest category_id.
HistoryGroup(d, season_id, group_code) ==
    LET rows == {i \in DOMAIN d.groups :
                    d.groups[i].season_id = season_id /\ d.groups[i].code = group_code}
    IN IF rows = {} THEN 0
       ELSE CHOOSE i \in rows :
                \A j \in rows : d.groups[i].category_id <= d.groups[j].category_id

\* for m in matches: [date, home, away, hs, as]
RECURSIVE ImportHistoryMatches(_, _, _, _)
ImportHistoryMatches(c, gid, jor_name, ms) ==
    IF c.err \/ ms = <<>> THEN c
    ELSE LET m == Head(ms)
             home == get_or_create_team(c, m[2], None)
             away == get_or_create_team(home.c, m[3], None)
         IN
         IF home.c.err THEN home.c
         ELSE IF away.c.err THEN away.c
         ELSE ImportHistoryMatches(
                InsertOrIgnoreMatch(away.c,
                    [group_id |-> gid, jornada |-> jor_name, date |-> m[1],
                     time |-> None, home_team_id |-> home.id,
                     away_team_id |-> away.id, home_score |-> m[4],
                     away_score |-> m[5], venue |-> None]),
                gid, jor_name, Tail(ms))

\* for jor_name, matches in jornadas.items()
RECURSIVE ImportJornadas(_, _, _)
ImportJornadas(c, gid, jornadas) ==
    IF c.err \/ jornadas = <<>> THEN c
    ELSE ImportJornadas(
            ImportHistoryMatches(c, gid, Head(jornadas)[1], Head(jornadas)[2]),
            gid, Tail(jornadas))

\* for group_code, jornadas in history_data.items()
RECURSIVE ImportHistoryGroups(_, _, _)
ImportHistoryGroups(c, season_id, history_data) ==
    IF c.err \/ history_data = <<>> THEN c
    ELSE LET gid == HistoryGroup(c.db, season_id, Head(history_data)[1]) IN
         ImportHistoryGroups(
            IF gid = 0 THEN c
            ELSE ImportJornadas(c, gid, Head(history_data)[2]),
            season_id, Tail(history_data))

import_history(c, season_id, history_data) ==
    LET done == ImportHistoryGroups(c, season_id, history_data) IN
    IF done.err THEN done ELSE commit(done)

\* text.split(sep): the parts of text between the occurrences of sep.  A
\* match-detail key is the sequence of its tokens (names, numerals, "|", "-").
RECURSIVE split(_, _)
split(text, sep) ==
    IF text = <<>> THEN << <<>> >>
    ELSE LET rest == split(Tail(text), sep) IN
         IF Head(text) = sep THEN << <<>> >> \o rest
         ELSE << <<Head(text)>> \o Head(rest) >> \o Tail(rest)

\* The text a sequence of tokens spells.
RECURSIVE Join(_)
Join(tokens) == IF tokens = <<>> THEN "" ELSE Head(tokens) \o Join(Tail(tokens))

\* int(text) of a decimal numeral.
int(text) == CHOOSE n \in 0..MaxScore : ToString(n) = Join(text)

\* SELECT id FROM matches WHERE home_team_id=? AND away_team_id=? AND
\* home_score=? AND away_score=?, fetchone(): a scan in rowid order; 0 for no row.
FindMatch(d, home_id, away_id, hs, as) ==
    LET rows == {i \in DOMAIN d.matches :
                    /\ d.matches[i].home_team_id = home_id
                    /\ d.matches[i].away_team_id = away_id
                    /\ d.matches[i].home_score = hs
                    /\ d.matches[i].away_score = as}
    IN IF rows = {} THEN 0 ELSE d.matches[Min(rows)].id

\* SELECT COUNT(*) FROM goals WHERE match_id=?
GoalCount(d, match_id) ==
    Cardinality({i \in DOMAIN d.goals : d.goals[i].match_id = match_id})

\* for goal in detail.get("g", []): [minute, player, running_score, side, type]
RECURSIVE InsertGoals(_, _, _)
InsertGoals(c, match_id, goals) ==
    IF c.err \/ goals = <<>> THEN c
    ELSE LET goal == Head(goals) IN
         IF goal[2] = None THEN IntegrityError(c)   \* goals.player_name is NOT NULL
         ELSE InsertGoals(
            [c EXCEPT !.db.goals = Append(@,
                [match_id |-> match_id, minute |-> goal[1],
                 player_name |-> goal[2], running_score |-> goal[3],
                 side |-> goal[4],
                 type |-> IF Len(goal) > 4 THEN goal[5] ELSE None])],
            match_id, Tail(goals))

\* No look at the goal rows the match has.
GoalsAlwaysInserted(d, match_id) == TRUE

\* The goals of a key are inserted only for a match without goal rows.
GoalsMayBeInserted(d, match_id) == GoalCount(d, match_id) = 0

\* The body of the loop over matchdetail_data.items().
ImportDetail(c, key, detail) ==
    LET parts == split(key, "|") IN
    IF Len(parts) # 3 THEN c
    ELSE LET home == get_or_create_team(c, Join(parts[1]), None)
             away == get_or_create_team(home.c, Join(parts[2]), None)
             score_parts == split(parts[3], "-")
         IN
         IF Len(score_parts) # 2 THEN away.c
         ELSE LET match_id == FindMatch(away.c.db, home.id, away.id,
                                        int(score_parts[1]), int(score_parts[2]))
              IN
              IF match_id = 0 THEN away.c
              ELSE IF ~GoalsMayBeInserted(away.c.db, match_id) THEN away.c
              ELSE InsertGoals(away.c, match_id, Get(detail, "g", <<>>))

RECURSIVE ImportDetails(_, _)
ImportDetails(c, matchdetail_data) ==
    IF c.err \/ matchdetail_data = <<>> THEN c
    ELSE ImportDetails(
            ImportDetail(c, Head(matchdetail_data)[1], Head(matchdetail_data)[2]),
            Tail(matchdetail_data))

import_matchdetail(c, season_id, matchdetail_data) ==
    LET done == ImportDetails(c, matchdetail_data) IN
    IF done.err THEN done ELSE commit(done)

RECURSIVE ImportShieldItems(_, _)
ImportShieldItems(c, shields_data) ==
    IF c.err \/ shields_data = <<>> THEN c
    ELSE ImportShieldItems(
            get_or_create_team(c, Head(shields_data)[1], Head(shields_data)[2]).c,
            Tail(shields_data))

import_shields(c, shields_data) ==
    LET done == ImportShieldItems(c, shields_data) IN
    IF done.err THEN done ELSE commit(done)

\* full_name LIKE '%' || group_name || '%' (the texts of the model are in
\* one case and hold no LIKE wildcard): group_name occurs in full_name.
Like(full_name, group_name) ==
    /\ full_name # None
    /\ \E pre \in Affixes, post \in Affixes :
          full_name = pre \o group_name \o post

\* The two SELECTs of import_scorers, fetchone(): SQLite searches the index of
\* UNIQUE(season_id, category_id, code), so the first row is the one of the
\* smallest code; 0 for no row.
FirstByCode(d, rows) ==
    IF rows = {} THEN 0
    ELSE CHOOSE i \in rows :
            \A j \in rows : CodeRank(d.groups[i].code) <= CodeRank(d.groups[j].code)

ScorerGroup(d, season_id, cat_id, group_name) ==
    LET mine == {i \in DOMAIN d.groups :
                    d.groups[i].season_id = season_id /\ d.groups[i].category_id = cat_id}
        exact == {i \in mine : d.groups[i].full_name = group_name}
        partial == {i \in mine : Like(d.groups[i].full_name, group_name)}
    IN IF exact # {} THEN FirstByCode(d, exact) ELSE FirstByCode(d, partial)

\* UNIQUE(group_id, player_name, team_id) of scorers.
ScorerConflict(d, gid, player_name, team_id) ==
    \E i \in DOMAIN d.scorers :
        /\ d.scorers[i].group_id = gid
        /\ d.scorers[i].player_name = player_name
        /\ d.scorers[i].team_id = team_id

\* INSERT INTO scorers: a plain INSERT, a conflict raises.
InsertScorer(c, gid, team_id, s) ==
    IF ScorerConflict(c.db, gid, s[1], team_id)
    THEN IntegrityError(c)
    ELSE [c EXCEPT !.db.sqlite_sequence.scorers = @ + 1,
                   !.db.scorers = Append(@,
            [id |-> c.db.sqlite_sequence.scorers + 1,
             group_id |-> gid, player_name |-> s[1], team_id |-> team_id,
             goals |-> s[3], games |-> s[4]])]

\* DELETE FROM scorers WHERE group_id=?
DeleteScorers(c, gid) ==
    LET other(s) == s.group_id # gid IN
    [c EXCEPT !.db.scorers = SelectSeq(@, other)]

\* for s in group_entry["s"]: [player, team, goals, games]
RECURSIVE ImportScorerRows(_, _, _)
ImportScorerRows(c, gid, rows) ==
    IF c.err \/ rows = <<>> THEN c
    ELSE LET team == get_or_create_team(c, Head(rows)[2], None) IN
         IF team.c.err THEN team.c
         ELSE ImportScorerRows(InsertScorer(team.c, gid, team.id, Head(rows)),
                               gid, Tail(rows))

\* for group_entry in scorers_data
RECURSIVE ImportScorerGroups(_, _, _, _)
ImportScorerGroups(c, season_id, cat_id, scorers_data) ==
    IF c.err \/ scorers_data = <<>> THEN c
    ELSE LET gid == ScorerGroup(c.db, season_id, cat_id, Head(scorers_data).g) IN
         ImportScorerGroups(
            IF gid = 0 THEN c
            ELSE ImportScorerRows(DeleteScorers(c, gid), gid, Head(scorers_data).s),
            season_id, cat_id, Tail(scorers_data))

import_scorers(c, season_id, scorers_data, category_name) ==
    LET cat == get_or_create_category(c, category_name)
        done == ImportScorerGroups(cat.c, season_id, cat.id, scorers_data)
    IN IF done.err THEN done ELSE commit(done)

(***************************************************************************)
(* main() of import_existing.py, one step per call it makes.  files holds  *)
(* what load_js_var returns for each variable.  main skips a value that is *)
(* None (the variable is not found) or empty: both are <<>> here.          *)
(***************************************************************************)
IsEmpty(v) == v = <<>>

Steps == <<"season", "benjamin", "prebenjamin", "shields", "history",
           "matchdetail", "gol_benj", "gol_prebenj", "close">>

StepAfter(step) ==
    Steps[(CHOOSE i \in DOMAIN Steps : Steps[i] = step) + 1]

\* The connection after the call main makes at `step`.
StepCall(step, c, season_id, f) ==
    CASE step = "season" ->
            get_or_create_season(c, SEASON_NAME, SEASON_START, SEASON_END, TRUE).c
      [] step = "benjamin" ->
            IF IsEmpty(f.BENJAMIN) THEN c
            ELSE import_category(c, season_id, "BENJAMIN", f.BENJAMIN)
      [] step = "prebenjamin" ->
            IF IsEmpty(f.PREBENJAMIN) THEN c
            ELSE import_category(c, season_id, "PREBENJAMIN", f.PREBENJAMIN)
      [] step = "shields" ->
            IF IsEmpty(f.SHIELDS) THEN c ELSE import_shields(c, f.SHIELDS)
      [] step = "history" ->
            IF IsEmpty(f.HISTORY) THEN c ELSE import_history(c, season_id, f.HISTORY)
      [] step = "matchdetail" ->
            IF IsEmpty(f.MATCH_DETAIL) THEN c
            ELSE import_matchdetail(c, season_id, f.MATCH_DETAIL)
      [] step = "gol_benj" ->
            IF IsEmpty(f.GOL_BENJ) THEN c
            ELSE import_scorers(c, season_id, f.GOL_BENJ, "BENJAMIN")
      [] step = "gol_prebenj" ->
            IF IsEmpty(f.GOL_PREBENJ) THEN c
            ELSE import_scorers(c, season_id, f.GOL_PREBENJ, "PREBENJAMIN")
      [] OTHER -> c

\* season_id as main holds it from its first call on.
SeasonId(d) ==
    get_or_create_season(get_connection(d), SEASON_NAME, SEASON_START, SEASON_END, TRUE).id

\* main() run without interruption from `step` on; what it leaves stored.
RECURSIVE RunFrom(_, _, _, _)
RunFrom(step, c, season_id, f) ==
    IF c.err \/ step = "close" THEN c
    ELSE RunFrom(StepAfter(step), StepCall(step, c, season_id, f),
                 IF step = "season" THEN SeasonId(c.db) ELSE season_id, f)

main(stored, f) == RunFrom("season", get_connection(stored), 0, f)

(***************************************************************************)
(* The data files of the model.                                            *)
(***************************************************************************)
\* A standings row [pos, team, pts, J, G, E, P, GF, GC, DF].
StRow(pos, team, pts) == <<pos, team, pts, 1, pts, 0, 1 - pts, pts, 1 - pts, 2 * pts - 1>>

\* Group A before its first matchday is played.
GroupA1 ==
    [id |-> "A", name |-> "Grupo A", fullName |-> "LP GRUPO A", phase |-> "Fase 1",
     island |-> "grancanaria", url |-> "u/a", jornada |-> "Jornada 1",
     standings |-> <<StRow(1, "T1", 0), StRow(2, "T2", 0)>>,
     matches |-> << <<"01/03", "10:00", "T1", "T2", NULL, NULL, "Campo 1">> >>]

\* Group A as an earlier snapshot had it.
GroupA0 ==
    [id |-> "A", name |-> "Grupo A", fullName |-> "LP GRUPO A", phase |-> "Fase 0",
     island |-> "tenerife", url |-> "u/old", jornada |-> "Jornada 1",
     standings |-> <<StRow(1, "T3", 0)>>,
     matches |-> << <<"01/03", "10:00", "T1", "T2", NULL, NULL, "Campo 1">> >>]

\* Group A once it is played; the object carries no island and no url.
GroupA2 ==
    [id |-> "A", name |-> "Grupo A", fullName |-> "LP GRUPO A", phase |-> "Fase 2",
     jornada |-> "Jornada 1",
     standings |-> <<StRow(1, "T2", 1), StRow(2, "T1", 0)>>,
     matches |-> << <<"01/03", "10:30", "T1", "T2", 1, 0, None>> >>]

\* Group A with T1 twice in its standings.
GroupA3 ==
    [id |-> "A", name |-> "Grupo A", fullName |-> "LP GRUPO A", phase |-> "Fase 1",
     island |-> "grancanaria", url |-> "u/a", jornada |-> "Jornada 2",
     standings |-> <<StRow(1, "T1", 1), StRow(2, "T1", 0), StRow(3, "T2", 0)>>,
     matches |-> <<>>]

GroupB1 ==
    [id |-> "B", name |-> "Grupo B", fullName |-> "GRUPO B", phase |-> "Fase 1",
     island |-> "lanzarote", url |-> "u/b", jornada |-> "Jornada 2",
     standings |-> <<StRow(1, "T3", 1)>>,
     matches |-> << <<"08/03", "11:00", "T3", "T1", 2, 1, "Campo 2">> >>]

\* PREBENJAMIN has a group of code A too.
GroupPreA ==
    [id |-> "A", name |-> "Grupo A", fullName |-> "PRE GRUPO A", phase |-> "Fase 1",
     island |-> "grancanaria", url |-> "u/pa", jornada |-> "Jornada 1",
     standings |-> <<StRow(1, "T3", 1), StRow(2, "T2", 0)>>,
     matches |-> <<>>]

BenjFiles == {<<GroupA1>>, <<GroupA2, GroupB1>>, <<GroupA3, GroupB1>>}
PrebenjFiles == {<<GroupPreA>>}

ShieldFiles == {<< <<"T1", "t1.png">>, <<"T2", "">>, <<"T3", None>> >>}

\* [date, home, away, hs, as]
HistoryFiles ==
    {<<>>,
     << <<"A", << <<"Jornada 1", << <<"01/03", "T1", "T2", 1, 0>>,
                                    <<"02/03", "T2", "T1", 1, 1>> >> >>,
                  <<"Jornada 2", << <<"08/03", "T1", "T2", 1, 0>> >> >> >> >>,
        <<"C", << <<"Jornada 1", << <<"01/03", "T3", "T1", 0, 0>> >> >> >> >> >>}

\* [minute, player, running_score, side, type]
Goal1 == <<10, "P1", "1-0", "h", "r">>
Goal2 == <<20, "P2", "1-1", "a">>

\* "home|away|hs-as"
Key(home, away, hs, as) == <<home, "|", away, "|", ToString(hs), "-", ToString(as)>>

DetailFiles ==
    {<<>>,
     << <<Key("T1", "T2", 1, 0), [g |-> <<Goal1>>]>> >>,
     << <<Key("T1", "T2", 1, 0), [g |-> <<Goal1, Goal2>>]>>,
        <<<<"T1", "|", "T2">>, [g |-> <<Goal1>>]>>,
        <<Key("T2", "T1", 1, 1), [v |-> "Campo 1"]>> >>}

\* [player, team, goals, games]
GolBenjFiles ==
    {<<>>,
     << [g |-> "GRUPO A", s |-> << <<"P1", "T1", 3, 2>>, <<"P2", "T2", 1, 2>> >>] >>,
     << [g |-> "GRUPO A", s |-> << <<"P1", "T1", 3, 2>>, <<"P1", "T1", 1, 1>> >>],
        [g |-> "GRUPO B", s |-> << <<"P3", "T3", 2, 1>> >>] >>}
GolPrebenjFiles ==
    {<< [g |-> "GRUPO Z", s |-> <<>>],
        [g |-> "PRE GRUPO A", s |-> << <<"P4", "T3", 1, 1>> >>] >>}

Snapshots ==
    [BENJAMIN : BenjFiles, PREBENJAMIN : PrebenjFiles, SHIELDS : ShieldFiles,
     HISTORY : HistoryFiles, MATCH_DETAIL : DetailFiles, GOL_BENJ : GolBenjFiles,
     GOL_PREBENJ : GolPrebenjFiles]

NoFiles ==
    [BENJAMIN |-> <<>>, PREBENJAMIN |-> <<>>, SHIELDS |-> <<>>, HISTORY |-> <<>>,
     MATCH_DETAIL |-> <<>>, GOL_BENJ |-> <<>>, GOL_PREBENJ |-> <<>>]

\* The snapshots an earlier run of main may have imported: group A alone, a
\* whole snapshot.
EarlierSnapshots ==
    {[NoFiles EXCEPT !.BENJAMIN = <<GroupA0>>],
     [BENJAMIN |-> <<GroupA2, GroupB1>>, PREBENJAMIN |-> <<GroupPreA>>,
      SHIELDS |-> << <<"T1", "old.png">>, <<"T2", "t2.png">> >>,
      HISTORY |-> << <<"A", << <<"Jornada 1", << <<"01/03", "T1", "T2", 1, 0>> >> >> >> >> >>,
      MATCH_DETAIL |-> << <<Key("T1", "T2", 1, 0), [g |-> <<Goal1>>]>> >>,
      GOL_BENJ |-> << [g |-> "LP GRUPO A", s |-> << <<"P9", "T2", 5, 2>> >>] >>,
      GOL_PREBENJ |-> <<>>]}

\* What the store holds before the import of files: nothing, or what the
\* import of an earlier snapshot left.
StoredBefore ==
    {EmptyDb} \cup {main(EmptyDb, earlier).disk : earlier \in EarlierSnapshots}

(***************************************************************************)
(* scripts/generate_js.py.  A data file is the JSON value it spells: a     *)
(* dict is the sequence of its <<key, value>> pairs in insertion order     *)
(* (the order json.dumps writes them in), a list is a sequence, None is    *)
(* null.  A SELECT is computed the way SQLite 3.40 plans it: the rows in   *)
(* the order of the index (or of the rowid) it scans, then its sorter.     *)
(***************************************************************************)
\* The largest matchday number of the model.
MaxJornada == 10

\* The texts the generator compares, in the order of SQLite's BINARY collation.
Collation ==
    <<"01/03", "02/03", "08/03", "10:00", "10:30", "11:00",
      "JORNADA 1", "Jornada 1", "Jornada 10", "Jornada 2", "Jornada 3", "Jornada 4",
      "Jornada 5", "Jornada 6", "Jornada 7", "Jornada 8",
      "P1", "P2", "P3", "P4", "P9", "T1", "T2", "T3">>

\* NULL sorts before every text.
Rank(text) ==
    IF text = None THEN 0 ELSE CHOOSE i \in DOMAIN Collation : Collation[i] = text

\* a < b for two sort keys (tuples of numbers of one length).
RECURSIVE KeyLess(_, _)
KeyLess(a, b) ==
    /\ a # <<>>
    /\ \/ Head(a) < Head(b)
       \/ Head(a) = Head(b) /\ KeyLess(Tail(a), Tail(b))

\* ORDER BY: rows[i] has the sort key keys[i]; rows of equal keys leave the
\* sorter in the order the scan fed them to it.
RECURSIVE Sorted(_, _, _)
Sorted(rows, keys, n) ==
    IF n = 0 THEN <<>>
    ELSE LET init == Sorted(rows, keys, n - 1)
             last == <<keys[n], rows[n]>>
         IN SelectSeq(init, LAMBDA x : ~KeyLess(last[1], x[1])) \o <<last>>
            \o SelectSeq(init, LAMBDA x : KeyLess(last[1], x[1]))

OrderBy(rows, keys) ==
    LET sorted == Sorted(rows, keys, Len(rows)) IN
    [p \in DOMAIN rows |-> sorted[p][2]]

\* SELECT DISTINCT over a scan: the first row of each value.
RECURSIVE Distinct(_)
Distinct(rows) ==
    IF rows = <<>> THEN <<>>
    ELSE LET init == Distinct(SubSeq(rows, 1, Len(rows) - 1))
             last == rows[Len(rows)]
         IN IF last \in Range(init) THEN init ELSE Append(init, last)

\* dict.setdefault(key, value): a key the dict has keeps its value.
DictSetDefault(dict, key, value) ==
    IF \E i \in DOMAIN dict : dict[i][1] = key THEN dict
    ELSE Append(dict, <<key, value>>)

\* dict[key] = value of a Python dict: a key the dict has keeps its place and
\* takes the value.
DictSet(dict, key, value) ==
    IF \E i \in DOMAIN dict : dict[i][1] = key
    THEN [i \in DOMAIN dict |-> IF dict[i][1] = key THEN <<key, value>> ELSE dict[i]]
    ELSE Append(dict, <<key, value>>)

\* The value a dict holds under a key; <<>> when it has no such key.
Entry(dict, key) ==
    IF \E i \in DOMAIN dict : dict[i][1] = key
    THEN dict[CHOOSE i \in DOMAIN dict : dict[i][1] = key][2]
    ELSE <<>>

\* SELECT id FROM categories WHERE name=?, fetchone(); 0 for no row.
CategoryId(d, category_name) ==
    LET row == {i \in DOMAIN d.categories : d.categories[i] = category_name} IN
    IF row = {} THEN 0 ELSE Min(row)

\* The ids of the rows of a table that pass a test, in rowid order.
Scan(table, Test(_)) ==
    SelectSeq([i \in DOMAIN table |-> i], LAMBDA i : Test(table[i]))

\* ... FROM groups WHERE season_id=? AND category_id=? ORDER BY code: the
\* group ids in the order of the index of UNIQUE(season_id, category_id, code).
GroupsByCode(d, season_id, cat_id) ==
    LET ids == Scan(d.groups,
                    LAMBDA g : g.season_id = season_id /\ g.category_id = cat_id)
    IN OrderBy(ids, [i \in DOMAIN ids |-> <<CodeRank(d.groups[ids[i]].code)>>])

\* ... FROM standings s JOIN teams t ... WHERE s.group_id=? ORDER BY s.position:
\* a search of the index of UNIQUE(group_id, team_id), then the sorter.
GroupStandings(d, gid) ==
    LET rows == SelectSeq(d.standings, LAMBDA s : s.group_id = gid)
        scan == OrderBy(rows, [i \in DOMAIN rows |-> <<rows[i].team_id>>])
        sorted == OrderBy(scan, [i \in DOMAIN scan |-> <<scan[i].position>>])
    IN [i \in DOMAIN sorted |->
            LET r == sorted[i] IN
            <<r.position, d.teams[r.team_id].name, r.points, r.played, r.won,
              r.drawn, r.lost, r.gf, r.gc, r.gd>>]

\* The matches of a group and a matchday in the order of the index of
\* UNIQUE(group_id, jornada, home_team_id, away_team_id).
MatchdayScan(d, gid, jornada) ==
    LET rows == SelectSeq(d.matches, LAMBDA m : m.group_id = gid /\ m.jornada = jornada)
    IN OrderBy(rows, [i \in DOMAIN rows |-> <<rows[i].home_team_id, rows[i].away_team_id>>])

\* ... FROM matches m JOIN teams th ... JOIN teams ta ... WHERE m.group_id=?
\* AND m.jornada=? ORDER BY m.date, m.time
CurrentMatches(d, gid, current_jornada) ==
    LET scan == MatchdayScan(d, gid, current_jornada)
        sorted == OrderBy(scan, [i \in DOMAIN scan |->
                                    <<Rank(scan[i].date), Rank(scan[i].time)>>])
    IN [i \in DOMAIN sorted |->
            LET m == sorted[i] IN
            <<m.date, m.time, d.teams[m.home_team_id].name,
              d.teams[m.away_team_id].name, m.home_score, m.away_score, m.venue>>]

\* The list of group objects; the None of a store without the category is
\* <<>> here, main tells neither from the other (if data:).
generate_category(d, season_id, category_name) ==
    LET cat_id == CategoryId(d, category_name)
        groups == GroupsByCode(d, season_id, cat_id)
    IN IF cat_id = 0 THEN <<>>
       ELSE [i \in DOMAIN groups |->
                LET g == d.groups[groups[i]] IN
                [id |-> g.code, name |-> g.name, fullName |-> g.full_name,
                 phase |-> g.phase, island |-> g.island, url |-> g.url,
                 jornada |-> g.current_jornada,
                 standings |-> GroupStandings(d, groups[i]),
                 matches |-> CurrentMatches(d, groups[i], g.current_jornada)]]

\* REPLACE(text, pattern, '') of a label that starts with pattern and goes on
\* with a numeral; any other label of the model does not hold pattern.
Replace(text, pattern) ==
    IF \E n \in 0..MaxJornada : text = pattern \o ToString(n)
    THEN ToString(CHOOSE n \in 0..MaxJornada : text = pattern \o ToString(n))
    ELSE text

\* CAST(text AS INTEGER): the number a numeral spells, 0 for a text that does
\* not start with a digit.
CastInteger(text) ==
    IF \E n \in 0..MaxJornada : text = ToString(n)
    THEN CHOOSE n \in 0..MaxJornada : text = ToString(n)
    ELSE 0

\* CAST(REPLACE(REPLACE(jornada, 'Jornada ', ''), 'JORNADA ', '') AS INTEGER)
JornadaOrder(jornada) == CastInteger(Replace(Replace(jornada, "Jornada "), "JORNADA "))

\* SELECT DISTINCT jornada FROM matches WHERE group_id=? AND home_score IS NOT
\* NULL ORDER BY ...: a search of the index of matches by group_id, which
\* yields the labels in BINARY order, then the sorter.
ScoredJornadas(d, gid) ==
    LET rows == SelectSeq(d.matches, LAMBDA m : m.group_id = gid /\ m.home_score # NULL)
        scan == OrderBy(rows, [i \in DOMAIN rows |-> <<Rank(rows[i].jornada)>>])
        labels == Distinct([i \in DOMAIN scan |-> scan[i].jornada])
    IN OrderBy(labels, [i \in DOMAIN labels |-> <<JornadaOrder(labels[i])>>])

\* ... WHERE m.group_id=? AND m.jornada=? AND m.home_score IS NOT NULL
\* ORDER BY m.date
HistoryMatches(d, gid, jor_name) ==
    LET scan == SelectSeq(MatchdayScan(d, gid, jor_name), LAMBDA m : m.home_score # NULL)
        sorted == OrderBy(scan, [i \in DOMAIN scan |-> <<Rank(scan[i].date)>>])
    IN [i \in DOMAIN sorted |->
            LET m == sorted[i] IN
            <<m.date, d.teams[m.home_team_id].name, d.teams[m.away_team_id].name,
              m.home_score, m.away_score>>]

\* group_hist of one group: {jor_name: matches} over its scored matchdays.
GroupHistory(d, gid) ==
    LET jornadas == ScoredJornadas(d, gid) IN
    [i \in DOMAIN jornadas |-> <<jornadas[i], HistoryMatches(d, gid, jornadas[i])>>]

\* SELECT id, code FROM groups WHERE season_id=?: a search of the index of
\* UNIQUE(season_id, category_id, code).
SeasonGroups(d, season_id) ==
    LET ids == Scan(d.groups, LAMBDA g : g.season_id = season_id) IN
    OrderBy(ids, [i \in DOMAIN ids |->
                    <<d.groups[ids[i]].category_id, CodeRank(d.groups[ids[i]].code)>>])

\* for gid, code in groups: ... history[code] = group_hist
RECURSIVE HistoryOf(_, _, _)
HistoryOf(d, groups, history) ==
    IF groups = <<>> THEN history
    ELSE LET gid == Head(groups)
             group_hist == GroupHistory(d, gid)
         IN HistoryOf(d, Tail(groups),
                IF group_hist = <<>> THEN history
                ELSE DictSet(history, d.groups[gid].code, group_hist))

generate_history(d, season_id) == HistoryOf(d, SeasonGroups(d, season_id), <<>>)

\* str() of a score inside an f-string.
Str(score) == IF score = NULL THEN "None" ELSE ToString(score)

\* f"{home}|{away}|{hs}-{as_}", as the sequence of its tokens.
DetailKey(home, away, hs, as) == <<home, "|", away, "|", Str(hs), "-", Str(as)>>

\* The row of matches with an id; <<>> for no row.
MatchById(d, id) ==
    LET rows == SelectSeq(d.matches, LAMBDA m : m.id = id) IN
    IF rows = <<>> THEN <<>> ELSE rows[1]

\* SELECT DISTINCT m.id, ... FROM matches m ... JOIN goals g ON g.match_id=m.id
\* WHERE m.home_score IS NOT NULL: a scan of goals in rowid order, each match
\* at its first goal.
MatchesWithGoals(d) ==
    LET scored(g) == MatchById(d, g.match_id) # <<>>
                        /\ MatchById(d, g.match_id).home_score # NULL
        scan == SelectSeq(d.goals, scored)
    IN Distinct([i \in DOMAIN scan |-> scan[i].match_id])

\* SELECT minute, player_name, running_score, side, type FROM goals WHERE
\* match_id=? ORDER BY minute: a scan in rowid order, then the sorter.
MatchGoals(d, mid) ==
    LET scan == SelectSeq(d.goals, LAMBDA g : g.match_id = mid)
        sorted == OrderBy(scan, [i \in DOMAIN scan |-> <<scan[i].minute>>])
    IN [i \in DOMAIN sorted |->
            LET g == sorted[i] IN
            <<g.minute, g.player_name, g.running_score, g.side, g.type>>]

\* for mid, home, away, hs, as_ in matches_with_goals: detail[key] = {"g": ...}
RECURSIVE DetailOf(_, _, _)
DetailOf(d, mids, detail) ==
    IF mids = <<>> THEN detail
    ELSE LET m == MatchById(d, Head(mids))
             key == DetailKey(d.teams[m.home_team_id].name,
                              d.teams[m.away_team_id].name,
                              m.home_score, m.away_score)
         IN DetailOf(d, Tail(mids),
                     DictSet(detail, key, [g |-> MatchGoals(d, Head(mids))]))

generate_matchdetail(d) == DetailOf(d, MatchesWithGoals(d), <<>>)

\* SELECT name, shield_filename FROM teams WHERE shield_filename IS NOT NULL
\* ORDER BY name: a scan of the index of UNIQUE(name).
generate_shields(d) ==
    LET rows == SelectSeq(d.teams, LAMBDA t : t.shield_filename # None)
        scan == OrderBy(rows, [i \in DOMAIN rows |-> <<Rank(rows[i].name)>>])
    IN [i \in DOMAIN scan |-> <<scan[i].name, scan[i].shield_filename>>]

\* ... FROM scorers s JOIN teams t ... WHERE s.group_id=? ORDER BY s.goals
\* DESC, s.games ASC: a search of the index of UNIQUE(group_id, player_name,
\* team_id), then the sorter.
GroupScorers(d, gid) ==
    LET rows == SelectSeq(d.scorers, LAMBDA s : s.group_id = gid)
        scan == OrderBy(rows, [i \in DOMAIN rows |->
                                <<Rank(rows[i].player_name), rows[i].team_id>>])
        sorted == OrderBy(scan, [i \in DOMAIN scan |-> <<0 - scan[i].goals, scan[i].games>>])
    IN [i \in DOMAIN sorted |->
            LET r == sorted[i] IN
            <<r.player_name, d.teams[r.team_id].name, r.goals, r.games>>]

\* for gid, full_name in groups: if scorers: result.append(...)
RECURSIVE ScorersOf(_, _)
ScorersOf(d, groups) ==
    IF groups = <<>> THEN <<>>
    ELSE LET scorers == GroupScorers(d, Head(groups)) IN
         (IF scorers = <<>> THEN <<>>
          ELSE <<[g |-> d.groups[Head(groups)].full_name, s |-> scorers]>>)
         \o ScorersOf(d, Tail(groups))

generate_scorers(d, season_id, category_name) ==
    LET cat_id == CategoryId(d, category_name) IN
    IF cat_id = 0 THEN <<>> ELSE ScorersOf(d, GroupsByCode(d, season_id, cat_id))

\* SELECT id, name FROM seasons WHERE is_current=1, fetchone(): a scan of
\* seasons in rowid order; 0 for no row.
CurrentSeason(d) ==
    LET rows == {i \in DOMAIN d.seasons : d.seasons[i].is_current = 1} IN
    IF rows = {} THEN 0 ELSE Min(rows)

\* The files before generate_js.py has ever run: no data file, an index.html
\* whose ?v= is the day 0.
NoOutput ==
    [benjamin |-> <<>>, prebenjamin |-> <<>>, history |-> <<>>, hist_matches |-> 0,
     matchdetail |-> <<>>, shields |-> <<>>, gol_benj |-> <<>>, gol_prebenj |-> <<>>,
     index_html |-> 0]

\* The data files, the files other than index.html.
DataFiles == DOMAIN NoOutput \ {"index_html"}

\* if data: write_js(OUTPUT_FILES[filename], ...): None and [] write nothing.
WriteCategory(written, filename, groups) ==
    IF groups = <<>> THEN written
    ELSE [written EXCEPT ![filename] = groups]

RECURSIVE Sum(_)
Sum(ns) == IF ns = <<>> THEN 0 ELSE Head(ns) + Sum(Tail(ns))

\* sum(len(ms) for grp in history.values() for ms in grp.values())
TotalMatches(history) ==
    Sum([i \in DOMAIN history |->
            Sum([j \in DOMAIN history[i][2] |-> Len(history[i][2][j][2])])])

\* A header with the day of the run at the top of every file.
StampEveryFile(written, day) ==
    [f \in DOMAIN written |-> [generated |-> day, content |-> written[f]]]

\* re.sub(r'\?v=\d{8}', f'?v={today}', content) of index.html.
bump_cache_version(written, day) == [written EXCEPT !.index_html = day]

\* main() of generate_js.py over the committed store, on the day `day`, with
\* the files `written` in place.
generate_main(stored, written, day) ==
    LET season_id == CurrentSeason(stored)
        history == generate_history(stored, season_id)
        benj == WriteCategory(written, "benjamin",
                              generate_category(stored, season_id, "BENJAMIN"))
        prebenj == WriteCategory(benj, "prebenjamin",
                                 generate_category(stored, season_id, "PREBENJAMIN"))
    IN IF season_id = 0 THEN written
       ELSE bump_cache_version(
              [prebenj EXCEPT
                 !.history = history,
                 !.hist_matches = TotalMatches(history),
                 !.matchdetail = generate_matchdetail(stored),
                 !.shields = generate_shields(stored),
                 !.gol_benj = generate_scorers(stored, season_id, "BENJAMIN"),
                 !.gol_prebenj = generate_scorers(stored, season_id, "PREBENJAMIN")],
              day)

(***************************************************************************)
(* The stores generate_js.py is run over.                                  *)
(***************************************************************************)
\* Group A with two teams on one position and two matches of its current
\* matchday at one date and time.
GroupA4 ==
    [id |-> "A", name |-> "Grupo A", fullName |-> "LP GRUPO A", phase |-> "Fase 1",
     island |-> "grancanaria", url |-> "u/a", jornada |-> "Jornada 2",
     standings |-> <<StRow(1, "T2", 1), StRow(1, "T1", 1), StRow(3, "T3", 0)>>,
     matches |-> << <<"08/03", "10:00", "T1", "T2", 1, 0, None>>,
                    <<"08/03", "10:00", "T2", "T3", NULL, NULL, "Campo 1">> >>]

\* The PREBENJAMIN group of code A with a played match.
GroupPreA2 ==
    [id |-> "A", name |-> "Grupo A", fullName |-> "PRE GRUPO A", phase |-> "Fase 1",
     island |-> "lanzarote", url |-> "u/pa", jornada |-> "Jornada 1",
     standings |-> <<StRow(1, "T3", 1), StRow(2, "T2", 0)>>,
     matches |-> << <<"01/03", "10:00", "T3", "T2", 2, 0, None>> >>]

\* A history file whose matchdays are not in order, with two matches of one
\* matchday on one date and a matchday spelled in capitals.
History4 ==
    << <<"A", << <<"Jornada 10", << <<"08/03", "T2", "T1", 0, 1>> >> >>,
                 <<"Jornada 2", << <<"02/03", "T3", "T1", 2, 2>>,
                                   <<"01/03", "T1", "T3", 0, 0>>,
                                   <<"02/03", "T2", "T3", 0, 0>> >> >>,
                 <<"Jornada 1", << <<"01/03", "T1", "T2", 1, 0>> >> >>,
                 <<"JORNADA 1", << <<"02/03", "T2", "T3", 1, 1>> >> >> >> >> >>

\* Goals out of order, two of them in one minute.
Detail4 ==
    << <<Key("T3", "T1", 2, 2),
         [g |-> << <<20, "P3", "2-1", "h", "r">>, <<5, "P3", "1-0", "h", "r">>,
                   <<5, "P1", "1-1", "a", "p">>, <<30, "P1", "2-2", "a", "r">> >>]>>,
       <<Key("T1", "T2", 1, 0), [g |-> <<Goal1>>]>> >>

\* Scorers on equal goals and games.
GolBenj4 ==
    << [g |-> "GRUPO A", s |-> << <<"P1", "T1", 5, 3>>, <<"P2", "T2", 5, 2>>,
                                  <<"P3", "T3", 7, 4>>, <<"P4", "T1", 5, 2>> >>],
       [g |-> "GRUPO B", s |-> << <<"P9", "T3", 5, 2>> >>] >>

Snapshot4 ==
    [BENJAMIN |-> <<GroupA4, GroupB1>>, PREBENJAMIN |-> <<GroupPreA2>>,
     SHIELDS |-> << <<"T3", "t3.png">>, <<"T1", "t1.png">>, <<"T2", "">> >>,
     HISTORY |-> History4, MATCH_DETAIL |-> Detail4, GOL_BENJ |-> GolBenj4,
     GOL_PREBENJ |-> << [g |-> "PRE GRUPO A", s |-> << <<"P4", "T3", 1, 1>> >>] >>]

\* The snapshots whose import filled the store.
GenSnapshots ==
    {Snapshot4,
     [NoFiles EXCEPT !.BENJAMIN = <<GroupA1>>],
     [NoFiles EXCEPT !.BENJAMIN = <<GroupA4>>, !.HISTORY = History4],
     [Snapshot4 EXCEPT !.BENJAMIN = <<GroupA2, GroupB1>>, !.PREBENJAMIN = <<GroupPreA>>]}
     \cup EarlierSnapshots

\* Goal rows the scraper stored for a match.
ScrapedGoals(d, match_id, goals) ==
    [d EXCEPT !.goals = @ \o
        [i \in DOMAIN goals |->
            [match_id |-> match_id, minute |-> goals[i][1],
             player_name |-> goals[i][2], running_score |-> goals[i][3],
             side |-> goals[i][4], type |-> goals[i][5]]]]

\* The stores: what the import of a snapshot left, and such a store after the
\* scraper stored the goals of a second T1 - T2 that ended 1-0.
Imported == {main(EmptyDb, f).disk : f \in GenSnapshots}

SecondMatch(d) ==
    LET same == SelectSeq(d.matches,
                    LAMBDA m : /\ d.teams[m.home_team_id].name = "T1"
                               /\ d.teams[m.away_team_id].name = "T2"
                               /\ m.home_score = 1 /\ m.away_score = 0)
    IN IF Len(same) < 2 THEN 0 ELSE same[2].id

GenStores ==
    Imported \cup
    {ScrapedGoals(d, SecondMatch(d), << <<7, "P2", "1-0", "h", "p">> >>) :
        d \in {i \in Imported : SecondMatch(i) # 0}}

(***************************************************************************)
(* app.js.  The static arrays are the JSON values of the data-*.js files:  *)
(* an object is the sequence of its <<key, value>> pairs in the order      *)
(* Object.entries and Object.keys list them in (no key of the data is an   *)
(* integer index, so this is the order of the file), null is None in a     *)
(* text and NULL in a score, an absent file or key is <<>>.                *)
(***************************************************************************)
\* scorers.slice(0, 30)
TopN == 30

\* n = n || 5
DefaultN == 5

\* parseInt(label.replace(/\D/g, '')): the number the digits of a label spell.
\* The labels of the model are a word, a space and a numeral.
ParseDigits(label) ==
    CHOOSE n \in 0..MaxJornada :
        \E word \in {"Jornada ", "JORNADA "} : label = word \o ToString(n)

\* A comparison of two labels as texts, the order of Array.prototype.sort
\* without a comparator.
TextOrder(label) == Rank(label)

\* array.slice(-n): the last n elements.
SliceLast(array, n) ==
    IF Len(array) <= n THEN array ELSE SubSeq(array, Len(array) - n + 1, Len(array))

\* The array, uncut.
KeepAll(array, n) == array

\* array.slice(0, n): the first n elements.
SliceFirst(array, n) ==
    IF Len(array) <= n THEN array ELSE SubSeq(array, 1, n)

\* [].concat(...lists)
RECURSIVE Flatten(_)
Flatten(lists) ==
    IF lists = <<>> THEN <<>> ELSE Head(lists) \o Flatten(Tail(lists))

\* The outcome as the other team sees it.
ResultOfRival(gf, gc) == IF gf < gc THEN "W" ELSE IF gf > gc THEN "L" ELSE "D"

\* gf > gc ? 'W' : gf < gc ? 'L' : 'D'
Result(gf, gc) == IF gf > gc THEN "W" ELSE IF gf < gc THEN "L" ELSE "D"

\* The objects getTeamForm pushes for one matchday of the history.
FormOfJornada(teamName, jorName, matches) ==
    LET mine == SelectSeq(matches,
                    LAMBDA m : /\ ~(m[4] = NULL \/ m[5] = NULL)
                               /\ ~(m[2] # teamName /\ m[3] # teamName))
    IN [i \in DOMAIN mine |->
            LET m == mine[i]
                isHome == m[2] = teamName
            IN [jorNum |-> ParseDigits(jorName), date |-> m[1],
                result |-> Result(IF isHome THEN m[4] ELSE m[5],
                                  IF isHome THEN m[5] ELSE m[4])]]

\* getTeamForm(teamName, groupId, n) over HISTORY; n = 0 is a call without n.
\* Array.prototype.sort is stable.
getTeamForm(HISTORY, teamName, groupId, n) ==
    LET hist == Entry(HISTORY, groupId)
        all == Flatten([i \in DOMAIN hist |->
                            FormOfJornada(teamName, hist[i][1], hist[i][2])])
        sorted == OrderBy(all, [i \in DOMAIN all |-> <<all[i].jorNum, Rank(all[i].date)>>])
    IN SliceLast(sorted, IF n = 0 THEN DefaultN ELSE n)

\* The scored matches of one matchday with the first team at home and the
\* second away.
H2HAtHome(home, away, jorName, matches) ==
    LET between == SelectSeq(matches,
                    LAMBDA m : /\ m[4] # NULL /\ m[5] # NULL
                               /\ m[2] = home /\ m[3] = away)
    IN [i \in DOMAIN between |->
            [jornada |-> jorName, date |-> between[i][1], home |-> between[i][2],
             away |-> between[i][3], hs |-> between[i][4], as |-> between[i][5]]]

\* matches.slice(-5) of openTeamDetail
StripN == 5

\* The number a comparison with < or > takes a score for: 0 for null.
ToNumber(score) == IF score = NULL THEN 0 ELSE score

\* The objects openTeamDetail pushes for one matchday of the history.
TeamMatchesOfJornada(teamName, jorName, jMatches) ==
    LET mine == SelectSeq(jMatches,
                    LAMBDA m : (m[2] = teamName \/ m[3] = teamName) /\ m[4] # NULL)
    IN [i \in DOMAIN mine |->
            LET m == mine[i]
                isHome == m[2] = teamName
                gf == IF isHome THEN m[4] ELSE m[5]
                gc == IF isHome THEN m[5] ELSE m[4]
            IN [jornada |-> jorName, date |-> m[1], opp |-> IF isHome THEN m[3] ELSE m[2],
                gf |-> gf, gc |-> gc, result |-> Result(ToNumber(gf), ToNumber(gc))]]

\* The modal of openTeamDetail(teamName, groupId): its matches, sorted by
\* date, and its form strip; <<>> when no category has the group and the modal
\* stays closed.
openTeamDetail(data, teamName, groupId) ==
    LET allGroups == data.BENJAMIN \o data.PREBENJAMIN
        hist == Entry(data.HISTORY, groupId)
        all == Flatten([i \in DOMAIN hist |->
                            TeamMatchesOfJornada(teamName, hist[i][1], hist[i][2])])
        matches == OrderBy(all, [i \in DOMAIN all |-> <<Rank(all[i].date)>>])
    IN IF ~\E i \in DOMAIN allGroups : allGroups[i].id = groupId THEN <<>>
       ELSE [kind |-> "team", team |-> teamName, groupId |-> groupId,
             matches |-> matches, form |-> SliceLast(matches, StripN)]

\* The head-to-head block of openMatchDetail: the matches it pushes for one
\* matchday of the history.
H2HOfJornada(home, away, jorName, matches) ==
    LET between == SelectSeq(matches,
                    LAMBDA m : /\ m[4] # NULL /\ m[5] # NULL
                               /\ \/ m[2] = home /\ m[3] = away
                                  \/ m[2] = away /\ m[3] = home)
    IN [i \in DOMAIN between |->
            [jornada |-> jorName, date |-> between[i][1], home |-> between[i][2],
             away |-> between[i][3], hs |-> between[i][4], as |-> between[i][5]]]

\* h2hMatches of openMatchDetail.
HeadToHead(HISTORY, groupId, home, away) ==
    LET hist == Entry(HISTORY, groupId) IN
    Flatten([i \in DOMAIN hist |-> H2HOfJornada(home, away, hist[i][1], hist[i][2])])

\* What the modal shows of them: nothing when HISTORY has no such group, the
\* text "No hay enfrentamientos previos registrados" for an empty list, else
\* the list.
H2HBlock(HISTORY, groupId, home, away) ==
    IF Entry(HISTORY, groupId) = <<>> THEN [shown |-> "none", list |-> <<>>]
    ELSE IF HeadToHead(HISTORY, groupId, home, away) = <<>>
    THEN [shown |-> "empty", list |-> <<>>]
    ELSE [shown |-> "list", list |-> HeadToHead(HISTORY, groupId, home, away)]

\* `${score}` of a template literal.
String(score) == IF score = NULL THEN "null" ELSE ToString(score)

\* The goal block of openMatchDetail: MATCH_DETAIL[`${home}|${away}|${hs}-${as}`].g
GoalsBlock(MATCH_DETAIL, home, away, hs, as) ==
    LET detail == Entry(MATCH_DETAIL, <<home, "|", away, "|", String(hs), "-", String(as)>>)
    IN IF detail = <<>> THEN <<>> ELSE detail.g

\* The rows renderGolTable shows: all groups merged, sorted and cut, or the
\* rows of one group.
GolRows(golData, golGroup) ==
    LET merged == Flatten([i \in DOMAIN golData |->
                    [j \in DOMAIN golData[i].s |->
                        [name |-> golData[i].s[j][1], team |-> golData[i].s[j][2],
                         goals |-> golData[i].s[j][3], games |-> golData[i].s[j][4],
                         group |-> golData[i].g]]])
        sorted == OrderBy(merged, [i \in DOMAIN merged |->
                                    <<0 - merged[i].goals, merged[i].games>>])
        found == SelectSeq(golData, LAMBDA g : g.g = golGroup)
    IN IF golGroup = "__GLOBAL__" THEN SliceFirst(sorted, TopN)
       ELSE IF found = <<>> THEN <<>>
       ELSE [j \in DOMAIN found[1].s |->
                [name |-> found[1].s[j][1], team |-> found[1].s[j][2],
                 goals |-> found[1].s[j][3], games |-> found[1].s[j][4],
                 group |-> ""]]

\* Object.keys(hist).sort(): the labels as texts.
TextSortedJornadas(hist) ==
    LET keys == [i \in DOMAIN hist |-> hist[i][1]] IN
    OrderBy(keys, [i \in DOMAIN keys |-> <<TextOrder(keys[i])>>])

\* Object.keys(hist).sort((a, b) => parseInt(...) - parseInt(...))
SortedJornadas(hist) ==
    LET keys == [i \in DOMAIN hist |-> hist[i][1]] IN
    OrderBy(keys, [i \in DOMAIN keys |-> <<ParseDigits(keys[i])>>])

(***************************************************************************)
(* The arrays the page is loaded with.                                     *)
(***************************************************************************)
\* The arrays the <script> tags of index.html define from the files a run of
\* generate_js.py over the store d wrote into an empty directory; a category
\* file that was not written defines nothing.
Load(d) ==
    [BENJAMIN |-> generate_category(d, CurrentSeason(d), "BENJAMIN"),
     PREBENJAMIN |-> generate_category(d, CurrentSeason(d), "PREBENJAMIN"),
     HISTORY |-> generate_history(d, CurrentSeason(d)),
     MATCH_DETAIL |-> generate_matchdetail(d),
     GOL_BENJ |-> generate_scorers(d, CurrentSeason(d), "BENJAMIN"),
     GOL_PREBENJ |-> generate_scorers(d, CurrentSeason(d), "PREBENJAMIN")]

\* Seven matchdays of T1 in group A2, won, lost, drawn, won, won, lost and
\* drawn in this order, in a file that does not keep the matchdays in order;
\* the first was played last.  Matchday 10 is not played yet.
HistoryA2 ==
    << <<"Jornada 10", << <<"08/03", "T1", "T2", NULL, NULL>> >> >>,
       <<"Jornada 2", << <<"01/03", "T2", "T1", 1, 0>> >> >>,
       <<"Jornada 1", << <<"08/03", "T1", "T2", 2, 0>>, <<"01/03", "T2", "T3", 0, 0>> >> >>,
       <<"Jornada 3", << <<"01/03", "T1", "T3", 1, 1>> >> >>,
       <<"Jornada 7", << <<"02/03", "T2", "T1", 0, 0>> >> >>,
       <<"Jornada 6", << <<"02/03", "T3", "T1", 2, 1>> >> >>,
       <<"Jornada 5", << <<"02/03", "T1", "T2", 3, 1>> >> >>,
       <<"Jornada 4", << <<"01/03", "T3", "T1", 0, 2>> >> >> >>

\* Thirty scorers of one group on equal goals and games.
ManyScorers == [i \in 1..TopN |-> <<"Q" \o ToString(i), "T2", 5, 2>>]

\* Files kept by hand: the groups A2 and PG2 the page selects by default,
\* no group of the younger category on the default island, more scorers
\* than the ranking shows.
Handkept ==
    [BENJAMIN |->
        << [id |-> "A2", name |-> "Grupo A2", fullName |-> "GRUPO A2", phase |-> "Fase 2",
            island |-> "grancanaria", url |-> "u/a2", jornada |-> "Jornada 8",
            standings |-> <<StRow(1, "T1", 1), StRow(2, "T2", 1), StRow(3, "T3", 0)>>,
            matches |-> << <<"08/03", "10:00", "T1", "T3", NULL, NULL, "Campo 1">> >>],
           [id |-> "L1", name |-> "Grupo L1", fullName |-> "GRUPO L1", phase |-> "Fase 1",
            island |-> "lanzarote", url |-> "u/l1", jornada |-> "Jornada 2",
            standings |-> <<StRow(1, "T3", 1), StRow(2, "T2", 0)>>,
            matches |-> << <<"02/03", "11:00", "T3", "T2", 1, 0, None>> >>] >>,
     PREBENJAMIN |->
        << [id |-> "PG2", name |-> "Grupo PG2", fullName |-> "GRUPO PG2", phase |-> "Fase 2",
            island |-> "lanzarote", url |-> "u/pg2", jornada |-> "Jornada 2",
            standings |-> <<StRow(1, "T3", 1), StRow(2, "T2", 0)>>,
            matches |-> << <<"02/03", "10:30", "T2", "T3", NULL, NULL, None>> >>] >>,
     HISTORY |->
        << <<"A2", HistoryA2>>,
           <<"L1", << <<"Jornada 10", << <<"08/03", "T3", "T2", 1, 0>> >> >>,
                      <<"Jornada 2", << <<"02/03", "T3", "T2", 1, 0>> >> >>,
                      <<"Jornada 1", << <<"01/03", "T2", "T3", 2, 2>> >> >> >> >>,
           <<"PG2", << <<"Jornada 2", << <<"02/03", "T2", "T3", 0, 1>> >> >>,
                       <<"Jornada 1", << <<"01/03", "T3", "T2", 2, 0>>,
                                         <<"01/03", "T3", "T1", 2, NULL>> >> >> >> >> >>,
     MATCH_DETAIL |-> << <<Key("T1", "T2", 2, 0), [g |-> <<Goal1, <<20, "P1", "2-0", "h", "r">> >>]>> >>,
     GOL_BENJ |->
        << [g |-> "GRUPO A2", s |-> << <<"P1", "T1", 5, 3>>, <<"P2", "T2", 5, 2>>,
                                       <<"P3", "T3", 7, 4>> >>],
           [g |-> "GRUPO L1", s |-> ManyScorers] >>,
     GOL_PREBENJ |->
        << [g |-> "GRUPO PG2", s |-> << <<"P1", "T1", 5, 3>>, <<"P2", "T2", 5, 2>>,
                                        <<"P3", "T3", 7, 4>> >>] >>]

\* The arrays of a page: the files of a run of the generator over a store
\* with both categories, or the files kept by hand.
AppData ==
    {Handkept} \cup
    {Load(d) : d \in {i \in GenStores :
                        /\ CurrentSeason(i) # 0
                        /\ generate_category(i, CurrentSeason(i), "BENJAMIN") # <<>>
                        /\ generate_category(i, CurrentSeason(i), "PREBENJAMIN") # <<>>}}

\* The teams and the groups of the arrays, and a group that is in none.
AppTeams == {"T1", "T2", "T3"}
AppGroups == {"A", "B", "A2", "PG2", "Z9"}

(***************************************************************************)
(* The selection state S of app.js and what it renders.  A render returns  *)
(* the state it leaves and the view of the active section: the ids of the  *)
(* group cards, the matchday pills <<label, kind>>, the match cards and    *)
(* the scorer rows.                                                        *)
(***************************************************************************)
\* const S = {...}
InitialS ==
    [cat |-> "benjamin", section |-> "clasif", search |-> "", jorGroup |-> "A2",
     jorNum |-> "", golGroup |-> "__GLOBAL__", island |-> "grancanaria"]

EmptyView == [groups |-> <<>>, pills |-> <<>>, matches |-> <<>>, rows |-> <<>>]

\* The texts a team name of the model is made of.
Pieces == {"", "t", "1", "2", "3"}

\* The text as it is.
AsTyped(name) == name

\* value.trim(): the text without the blanks around it.
Trim(value) ==
    CHOOSE core \in {"", "T1", "t1", "zz"} :
        \E before \in {"", " ", "  "}, after \in {"", " "} : value = before \o core \o after

\* name.toLowerCase() of a team name of the model.
ToLowerCase(name) ==
    CASE name = "T1" -> "t1" [] name = "T2" -> "t2" [] name = "T3" -> "t3" [] OTHER -> name

\* text.includes(part)
Includes(text, part) == \E before \in Pieces, after \in Pieces : text = before \o part \o after

\* A value a condition of JavaScript takes for false: '', null, undefined.
Falsy(text) == text \in {"", None}

\* getData()
getData(S, data) == IF S.cat = "benjamin" THEN data.BENJAMIN ELSE data.PREBENJAMIN

\* filterGroups(groups)
filterGroups(S, groups) ==
    IF S.search = "" THEN groups
    ELSE SelectSeq(groups,
            LAMBDA g : \E i \in DOMAIN g.standings :
                            Includes(ToLowerCase(g.standings[i][2]), S.search))

\* The groups of a list phase by phase, the phases in the order getPhases and
\* byPhase meet them.
ByPhase(groups) ==
    LET phases == Distinct([i \in DOMAIN groups |-> groups[i].phase]) IN
    Flatten([p \in DOMAIN phases |-> SelectSeq(groups, LAMBDA g : g.phase = phases[p])])

Ids(groups) == [i \in DOMAIN groups |-> groups[i].id]

\* renderClasif()
renderClasif(S, data) ==
    [S |-> S,
     view |-> [EmptyView EXCEPT !.groups = Ids(ByPhase(filterGroups(S, getData(S, data))))]]

\* group.matches.map(m => ({date, time, home, away, hs, as, venue}))
CurrentCards(group) ==
    [i \in DOMAIN group.matches |->
        [date |-> group.matches[i][1], home |-> group.matches[i][3],
         away |-> group.matches[i][4], hs |-> group.matches[i][5],
         as |-> group.matches[i][6]]]

\* getJornadaMatches(jorName)
getJornadaMatches(S, data, jorName) ==
    LET matches == Entry(Entry(data.HISTORY, S.jorGroup), jorName) IN
    [i \in DOMAIN matches |->
        [date |-> matches[i][1], home |-> matches[i][2], away |-> matches[i][3],
         hs |-> matches[i][4], as |-> matches[i][5]]]

\* pill.classList.add('active') alone, every other pill as it was.
AddActive(pills, clicked) ==
    [k \in DOMAIN pills |-> <<pills[k][1], pills[k][2], pills[k][3] \/ k = clicked>>]

\* The click handler of a pill on the class list of the pills: 'active' is
\* removed from every .jornada-pill and added to the clicked one.
MoveActive(pills, clicked) ==
    [k \in DOMAIN pills |-> <<pills[k][1], pills[k][2], k = clicked>>]

\* renderJornadaContent() over the pills and cards `shown` of the section.  A
\* pill is its label, its kind and whether it has the class 'active'.  An
\* empty object under a key of HISTORY is not told from no key: it leaves S
\* alone as well.
renderJornadaContent(S, data, shown) ==
    LET found == SelectSeq(getData(S, data), LAMBDA g : g.id = S.jorGroup)
        group == found[1]
        hist == Entry(data.HISTORY, S.jorGroup)
        jornadas == SortedJornadas(hist)
        latest == IF S.jorNum = "" \/ ~(\E i \in DOMAIN jornadas : jornadas[i] = S.jorNum)
                  THEN [S EXCEPT !.jorNum = jornadas[Len(jornadas)]]
                  ELSE S
        currentJor == group.jornada
        hasCurrentInHistory == \E i \in DOMAIN jornadas : jornadas[i] = currentJor
        extra == ~hasCurrentInHistory /\ ~Falsy(currentJor)
        chosen == IF extra /\ ~(\E i \in DOMAIN jornadas : jornadas[i] = latest.jorNum)
                  THEN [latest EXCEPT !.jorNum = currentJor]
                  ELSE latest
    IN IF S.jorGroup = "" \/ found = <<>>
       THEN [S |-> S, view |-> [shown EXCEPT !.pills = <<>>, !.matches = <<>>]]
       ELSE IF hist # <<>>
       THEN [S |-> chosen,
             view |-> [shown EXCEPT
                !.pills = [i \in DOMAIN jornadas |->
                              <<jornadas[i], "history", jornadas[i] = latest.jorNum>>]
                          \o (IF extra
                              THEN << <<currentJor, "current", currentJor = latest.jorNum>> >>
                              ELSE <<>>),
                !.matches = IF chosen.jorNum = currentJor THEN CurrentCards(group)
                            ELSE getJornadaMatches(chosen, data, chosen.jorNum)]]
       ELSE [S |-> S,
             view |-> [shown EXCEPT
                !.pills = IF Falsy(group.jornada) THEN <<>>
                          ELSE << <<group.jornada, "only", TRUE>> >>,
                !.matches = CurrentCards(group)]]

\* renderJornadas()
renderJornadas(S, data) ==
    LET groups == getData(S, data)
        selected == IF S.jorGroup = "" /\ Len(groups) > 0
                    THEN [S EXCEPT !.jorGroup = groups[1].id]
                    ELSE S
    IN IF selected.jorGroup # "" THEN renderJornadaContent(selected, data, EmptyView)
       ELSE [S |-> selected, view |-> EmptyView]

\* renderGolTable() over the section `shown`.
renderGolTable(S, data, shown) ==
    [S |-> S,
     view |-> [shown EXCEPT
        !.rows = GolRows(IF S.cat = "benjamin" THEN data.GOL_BENJ ELSE data.GOL_PREBENJ,
                         S.golGroup)]]

\* renderGoleadores()
renderGoleadores(S, data) ==
    LET golData == IF S.cat = "benjamin" THEN data.GOL_BENJ ELSE data.GOL_PREBENJ IN
    IF golData = <<>> THEN [S |-> S, view |-> EmptyView]
    ELSE renderGolTable(IF S.golGroup = "" THEN [S EXCEPT !.golGroup = "__GLOBAL__"] ELSE S,
                        data, EmptyView)

\* islands of renderIsla
Islands == <<"grancanaria", "lanzarote", "fuerteventura">>

\* new Set(data.map(g => g.island)), in the order of insertion.
availableIslands(S, data) ==
    Distinct([i \in DOMAIN getData(S, data) |-> getData(S, data)[i].island])

\* renderIsla()
renderIsla(S, data) ==
    LET available == availableIslands(S, data)
        picked == IF \E i \in DOMAIN available : available[i] = S.island THEN S
                  ELSE [S EXCEPT !.island =
                            IF available = <<>> \/ Falsy(available[1]) THEN "grancanaria"
                            ELSE available[1]]
        islandGroups == SelectSeq(getData(picked, data), LAMBDA g : g.island = picked.island)
    IN [S |-> picked,
        view |-> [EmptyView EXCEPT !.groups = Ids(ByPhase(filterGroups(picked, islandGroups)))]]

\* renderSection()
renderSection(S, data) ==
    CASE S.section = "clasif" -> renderClasif(S, data)
      [] S.section = "jornadas" -> renderJornadas(S, data)
      [] S.section = "goleadores" -> renderGoleadores(S, data)
      [] S.section = "isla" -> renderIsla(S, data)

\* A click that sets the category and nothing else.
CategoryOnly(S, cat) == [S EXCEPT !.cat = cat]

\* The click on a category button, up to its render.
CategoryClicked(S, cat) ==
    [S EXCEPT !.cat = cat, !.search = "",
              !.jorGroup = IF cat = "benjamin" THEN "A2" ELSE "PG2",
              !.jorNum = "", !.golGroup = "__GLOBAL__", !.island = "grancanaria"]

\* The click on a section tab of the earlier app.js, which leaves the
\* matchday alone.
SectionOnly(S, section) == [S EXCEPT !.section = section]

\* The click on a section tab, up to its render.
SectionClicked(S, section) ==
    IF section = "jornadas" THEN [S EXCEPT !.section = section, !.jorNum = ""]
    ELSE [S EXCEPT !.section = section]

(***************************************************************************)
(* The import of one snapshot, run any number of times, each run to its    *)
(* end or to the point where the process is killed.                        *)
(***************************************************************************)
\* Runs of main that reach their end, and runs that are killed.
MaxRuns == 2
MaxKills == 1

VARIABLES
    db,         \* the store as the connection reads it
    disk,       \* the store as committed
    files,      \* the data-*.js files being imported
    base,       \* the store before the first run over files
    pc,         \* where main is: a step of Steps, or idle, done, aborted, killed
    season_id,  \* main's local variable
    first,      \* the store after the first run that reached its end
    runs,       \* the runs that reached their end
    kills,      \* the runs that were killed
    killed_at,  \* the step the last killed run was in
    call,       \* the last call made to the store on its own, with its arguments
    ret,        \* what that call returned
    calls,      \* the calls made to the store on their own
    out,        \* the files generate_js.py wrote last
    prev,       \* the files its run before that wrote, over the same store
    gens,       \* the runs of generate_js.py since the store last changed
    today,      \* the day of the last run of generate_js.py
    S,          \* app.js: the selection state
    data,       \* app.js: the static arrays of the data-*.js files loaded
    view,       \* app.js: what the last render of the active section showed
    modal,      \* app.js: what the match detail modal opened last showed
    sw          \* the service worker: its versions, the caches and its events

\* No run of generate_js.py yet, no page loaded yet.
NotGenerated == out = <<>> /\ prev = <<>> /\ gens = 0 /\ today = 0
NotLoaded == S = <<>> /\ data = <<>> /\ view = <<>> /\ modal = <<>> /\ sw = <<>>

vars == <<db, disk, files, base, pc, season_id, first, runs, kills, killed_at,
          call, ret, calls, out, prev, gens, today, S, data, view, modal, sw>>

\* What a run of main leaves alone, and what a call to the store leaves alone.
genVars == <<out, prev, gens, today>>
appVars == <<S, data, view, modal, sw>>
storeVars == <<call, ret, calls>>
runVars == <<files, base, pc, season_id, first, runs, kills, killed_at, genVars, appVars>>

Init ==
    /\ disk \in StoredBefore
    /\ files \in Snapshots
    /\ db = disk
    /\ base = disk
    /\ pc = "idle"
    /\ season_id = 0
    /\ first = EmptyDb
    /\ runs = 0
    /\ kills = 0
    /\ killed_at = ""
    /\ call = <<>>
    /\ ret = 0
    /\ calls = 0
    /\ NotGenerated
    /\ NotLoaded

\* python3 scripts/import_existing.py.  A run that an exception ended is not
\* followed by another: the same files raise the same exception again.
Begin ==
    /\ pc \in {"idle", "done", "killed"}
    /\ runs < MaxRuns
    /\ pc' = "season"
    /\ db' = disk
    /\ season_id' = 0
    /\ UNCHANGED <<disk, files, base, first, runs, kills, killed_at, call, ret, calls, genVars, appVars>>

\* The call main makes at step: it returns, or its exception ends the process.
Call(step) ==
    /\ pc = step
    /\ LET c == StepCall(step, get_connection(disk), season_id, files) IN
        /\ db' = c.db
        /\ disk' = c.disk
        /\ pc' = IF c.err THEN "aborted" ELSE StepAfter(step)
    /\ UNCHANGED <<files, base, first, runs, kills, killed_at, call, ret, calls, genVars, appVars>>

Season ==
    /\ season_id' = SeasonId(disk)
    /\ Call("season")

ImportBenjamin == Call("benjamin") /\ UNCHANGED season_id
ImportPrebenjamin == Call("prebenjamin") /\ UNCHANGED season_id
ImportShields == Call("shields") /\ UNCHANGED season_id
ImportHistory == Call("history") /\ UNCHANGED season_id
ImportMatchdetail == Call("matchdetail") /\ UNCHANGED season_id
ImportGolBenj == Call("gol_benj") /\ UNCHANGED season_id
ImportGolPrebenj == Call("gol_prebenj") /\ UNCHANGED season_id

\* conn.close() at the end of main.
Close ==
    /\ pc = "close"
    /\ pc' = "done"
    /\ runs' = runs + 1
    /\ first' = IF runs = 0 THEN disk ELSE first
    /\ UNCHANGED <<db, disk, files, base, season_id, kills, killed_at, call, ret, calls, genVars, appVars>>

\* The process is killed inside the call at pc: what the call has committed
\* up to that point stays, the open transaction is rolled back.
Kill ==
    /\ pc \in Range(Steps)
    /\ kills < MaxKills
    /\ LET c == StepCall(pc, get_connection(disk), season_id, files) IN
        \E stored \in {disk} \cup Range(c.log) :
            /\ disk' = stored
            /\ db' = stored
    /\ pc' = "killed"
    /\ kills' = kills + 1
    /\ killed_at' = pc
    /\ UNCHANGED <<files, base, season_id, first, runs, call, ret, calls, genVars, appVars>>

Next ==
    \/ Begin
    \/ Season
    \/ ImportBenjamin
    \/ ImportPrebenjamin
    \/ ImportShields
    \/ ImportHistory
    \/ ImportMatchdetail
    \/ ImportGolBenj
    \/ ImportGolPrebenj
    \/ Close
    \/ Kill

Spec == Init /\ [][Next]_vars

(***************************************************************************)
(* What the statements of the specification speak of.                      *)
(***************************************************************************)
Tables == {"seasons", "categories", "groups", "teams", "standings", "matches",
           "goals", "scorers"}

\* SELECT COUNT(*) of every table.
Counts(d) == [t \in Tables |-> Len(d[t])]

\* The rows of every table.
Rows(d) == [t \in Tables |-> d[t]]

\* A row without its surrogate id.
NoId(row) == [f \in DOMAIN row \ {"id"} |-> row[f]]

\* The match row of an id.
MatchOf(d, id) == d.matches[CHOOSE i \in DOMAIN d.matches : d.matches[i].id = id]

\* The rows of every table with the surrogate ids of standings, matches and
\* scorers left out, a goal holding the row of its match in place of the id.
Content(d) ==
    [t \in Tables |->
        IF t \in {"standings", "matches", "scorers"}
        THEN [i \in DOMAIN d[t] |-> NoId(d[t][i])]
        ELSE IF t = "goals"
        THEN [i \in DOMAIN d.goals |->
                [d.goals[i] EXCEPT !.match_id = NoId(MatchOf(d, @))]]
        ELSE d[t]]

\* The standings of a group as the rows of a data file,
\* [pos, team, pts, J, G, E, P, GF, GC, DF], in rowid order.
StandingsOf(d, gid) ==
    LET mine(r) == r.group_id = gid IN SelectSeq(d.standings, mine)

FileRows(d, gid) ==
    LET rows == StandingsOf(d, gid) IN
    [i \in DOMAIN rows |->
        <<rows[i].position, d.teams[rows[i].team_id].name, rows[i].points,
          rows[i].played, rows[i].won, rows[i].drawn, rows[i].lost,
          rows[i].gf, rows[i].gc, rows[i].gd>>]

\* The id of the group of a key, 0 for none.
GroupId(d, season, category_name, code) ==
    LET rows == {i \in DOMAIN d.groups :
                    /\ d.groups[i].season_id = season
                    /\ d.groups[i].category_id \in DOMAIN d.categories
                    /\ d.categories[d.groups[i].category_id] = category_name
                    /\ d.groups[i].code = code}
    IN IF rows = {} THEN 0 ELSE Min(rows)

\* The goal rows of a match, in rowid order.
GoalsOf(d, match_id) ==
    LET mine(g) == g.match_id = match_id IN SelectSeq(d.goals, mine)

\* The group objects main passes to import_category at a step.
CategoryOf(step) == IF step = "benjamin" THEN "BENJAMIN" ELSE "PREBENJAMIN"
GroupsOf(step) == IF step = "benjamin" THEN files.BENJAMIN ELSE files.PREBENJAMIN

(***************************************************************************)
(* C1.  A full import run followed by a second full run of the same data   *)
(* files leaves every table with the row count it had after the first run. *)
(***************************************************************************)
C1_SecondRunKeepsRowCounts ==
    (pc = "done" /\ runs >= 2) => Counts(disk) = Counts(first)

\* The second run has ended, on a store with rows in every table.
C1_SecondRunEnded ==
    /\ pc = "done"
    /\ runs = 2
    /\ \A t \in Tables : Len(disk[t]) > 0
    /\ Counts(disk) # Counts(base)

(***************************************************************************)
(* C3.  When import_category returns, the standings of every group of its  *)
(* data are exactly the rows the data gives for it, in their order, and    *)
(* the standings rows of every other group are the ones stored before.     *)
(***************************************************************************)
C3_StandingsReplaced ==
    [][\A step \in {"benjamin", "prebenjamin"} :
          (pc = step /\ pc' = StepAfter(step)) =>
              LET gs == GroupsOf(step)
                  gid(k) == GroupId(disk', season_id, CategoryOf(step), gs[k].id)
              IN /\ \A k \in DOMAIN gs :
                        /\ gid(k) # 0
                        /\ FileRows(disk', gid(k)) = Get(gs[k], "standings", <<>>)
                 /\ \A other \in DOMAIN disk.groups :
                        (\A k \in DOMAIN gs : gid(k) # other) =>
                            StandingsOf(disk', other) = StandingsOf(disk, other)]_vars

\* Group A held the standings of an earlier snapshot and now holds the ones
\* of the data; group B, which the data does not name, holds what it held.
C3_PriorStandingsReplaced ==
    /\ pc = "prebenjamin"
    /\ runs = 0 /\ kills = 0
    /\ files.BENJAMIN = <<GroupA1>>
    /\ FileRows(base, GroupId(base, 1, "BENJAMIN", "A")) = GroupA2.standings
    /\ FileRows(disk, GroupId(disk, 1, "BENJAMIN", "A")) = GroupA1.standings
    /\ FileRows(disk, GroupId(disk, 1, "BENJAMIN", "B")) = GroupB1.standings

\* Two match rows of one key (group, matchday, home team, away team).
SameKey(m, n) ==
    /\ m.group_id = n.group_id
    /\ m.jornada = n.jornada
    /\ m.home_team_id = n.home_team_id
    /\ m.away_team_id = n.away_team_id

(***************************************************************************)
(* C4.  A stored match row never changes: an insert for the key (group,    *)
(* matchday, home, away) of a stored row adds no row and leaves the date,  *)
(* time, scores and venue of the stored one as they are, null scores too.  *)
(***************************************************************************)
C4_FirstWriteWins ==
    [][/\ \A i \in DOMAIN disk.matches :
            i \in DOMAIN disk'.matches /\ disk'.matches[i] = disk.matches[i]
       /\ \A j \in DOMAIN disk'.matches : \A i \in DOMAIN disk.matches :
            j > Len(disk.matches) => ~SameKey(disk'.matches[j], disk.matches[i])]_vars

\* import_history has made its insert of T1-T2, 1-0, for Jornada 1 of group
\* A, where the match is stored with null scores: they are still null.
C4_ScoredInsertOverNullScores ==
    /\ pc = "matchdetail"
    /\ files.HISTORY # <<>>
    /\ \E i \in DOMAIN disk.matches :
          LET m == disk.matches[i] IN
          /\ m.group_id = HistoryGroup(disk, season_id, "A")
          /\ m.jornada = "Jornada 1"
          /\ disk.teams[m.home_team_id].name = "T1"
          /\ disk.teams[m.away_team_id].name = "T2"
          /\ m.home_score = NULL /\ m.away_score = NULL
          /\ m.time = "10:00"

(***************************************************************************)
(* C6.  A match that has goal rows keeps exactly those rows: goals are     *)
(* inserted only for a match that has none, so an import repeated over the *)
(* same match-detail data adds no goal to a match an earlier one filled.   *)
(***************************************************************************)
C6_GoalsInsertedOnce ==
    [][\A i \in DOMAIN disk.matches :
          LET id == disk.matches[i].id IN
          GoalCount(disk, id) > 0 => GoalsOf(disk', id) = GoalsOf(disk, id)]_vars

\* import_matchdetail has run a second time over data whose goals the first
\* run inserted.
C6_DetailImportedTwice ==
    /\ pc = "gol_benj"
    /\ runs = 1
    /\ base.goals = <<>>
    /\ files.MATCH_DETAIL # <<>>
    /\ first.goals # <<>>
    /\ disk.goals = first.goals

\* The goals of a side ("h" or "a") among goal rows.
SideCount(goals, side) ==
    Cardinality({i \in DOMAIN goals : goals[i].side = side})

(***************************************************************************)
(* C7.  Every match that has goal rows has a home and an away score, and   *)
(* they are the numbers of its home-side and away-side goals, which the    *)
(* running score of its last goal spells.                                  *)
(***************************************************************************)
C7_ScoreIsGoalDerived ==
    \A i \in DOMAIN disk.matches :
        LET m == disk.matches[i]
            goals == GoalsOf(disk, m.id)
        IN goals # <<>> =>
            /\ m.home_score # NULL /\ m.away_score # NULL
            /\ m.home_score = SideCount(goals, "h")
            /\ m.away_score = SideCount(goals, "a")
            /\ goals[Len(goals)].running_score =
                  ToString(m.home_score) \o "-" \o ToString(m.away_score)

(***************************************************************************)
(* C8.  A row that violates a constraint of the store is skipped and the   *)
(* run goes on with the rows and the batches after it: no run is ended by  *)
(* a constraint violation.                                                 *)
(***************************************************************************)
C8_ViolationSkipsOneRow == pc # "aborted"

(***************************************************************************)
(* C9.  A run is killed at any point and a full run over the same files    *)
(* then reaches its end: every table holds the rows one run without a kill *)
(* leaves from the same starting store, the surrogate ids of standings,    *)
(* matches and scorers rows left out of the comparison.                    *)
(***************************************************************************)
C9_SameContent ==
    (pc = "done" /\ kills >= 1) =>
        Content(disk) = Content(main(base, files).disk)

\* C9 as the specification words it: the rows themselves, ids included, are
\* the ones of a run without a kill.
C9_SameRows ==
    (pc = "done" /\ kills >= 1 /\ runs = 1) =>
        Rows(disk) = Rows(main(base, files).disk)

\* The run was killed inside import_matchdetail, after import_history had
\* committed its matches; the next run has ended and has stored goals.
C9_KilledThenCompleted ==
    /\ pc = "done"
    /\ kills = 1 /\ runs = 1
    /\ killed_at = "matchdetail"
    /\ Len(disk.matches) > Len(base.matches)
    /\ Len(disk.goals) > Len(base.goals)

(***************************************************************************)
(* The store called on its own: any sequence of calls of the functions of  *)
(* db.py and of import_history, on one connection, over a store that holds *)
(* what the import of group A left.                                        *)
(***************************************************************************)
\* The calls made in a sequence.
MaxCalls == 2

\* [name, start_year, end_year]
SeasonArgs == {<<SEASON_NAME, SEASON_START, SEASON_END>>,
               <<"2026-2027", SEASON_END, SEASON_END + 1>>}
CategoryArgs == {"BENJAMIN", "PREBENJAMIN"}
TeamArgs == {"T1", "T4"}
ShieldArgs == {None, "", "t1.png"}
CodeArgs == {"A", "B"}

\* The keyword arguments of a get_or_create_group call: none, two of them,
\* all of them.
KwargsArgs ==
    {<<>>,
     [island |-> "lapalma", url |-> None],
     [name |-> "Grupo X", full_name |-> None, phase |-> "Fase 3", island |-> None,
      url |-> "u/new", current_jornada |-> "Jornada 3"]}

HistoryArgs ==
    {<< <<"A", << <<"Jornada 1", << <<"01/03", "T1", "T2", 1, 0>> >> >> >> >> >>,
     << <<"A", << <<"Jornada 2", << <<"08/03", "T2", "T1", 2, 2>> >> >> >> >> >>}

\* The open connection.
Conn == [db |-> db, disk |-> disk, err |-> FALSE, log |-> <<>>]

InitStore ==
    /\ disk = main(EmptyDb, [NoFiles EXCEPT !.BENJAMIN = <<GroupA0>>]).disk
    /\ db = disk
    /\ base = disk
    /\ files = NoFiles
    /\ pc = "idle"
    /\ season_id = 0
    /\ first = EmptyDb
    /\ runs = 0
    /\ kills = 0
    /\ killed_at = ""
    /\ call = <<>>
    /\ ret = 0
    /\ calls = 0
    /\ NotGenerated
    /\ NotLoaded

\* The call with the arguments args returns r.
Returns(r, args) ==
    /\ db' = r.c.db
    /\ disk' = r.c.disk
    /\ ret' = r.id
    /\ call' = args

GetOrCreateSeason ==
    /\ calls < MaxCalls
    /\ calls' = calls + 1
    /\ \E s \in SeasonArgs, is_current \in BOOLEAN :
          Returns(get_or_create_season(Conn, s[1], s[2], s[3], is_current),
                  <<"get_or_create_season", s[1], is_current>>)
    /\ UNCHANGED runVars

GetOrCreateCategory ==
    /\ calls < MaxCalls
    /\ calls' = calls + 1
    /\ \E name \in CategoryArgs :
          Returns(get_or_create_category(Conn, name),
                  <<"get_or_create_category", name>>)
    /\ UNCHANGED runVars

GetOrCreateTeam ==
    /\ calls < MaxCalls
    /\ calls' = calls + 1
    /\ \E name \in TeamArgs, shield_filename \in ShieldArgs :
          Returns(get_or_create_team(Conn, name, shield_filename),
                  <<"get_or_create_team", name, shield_filename>>)
    /\ UNCHANGED runVars

GetOrCreateGroup ==
    /\ calls < MaxCalls
    /\ calls' = calls + 1
    /\ \E season \in DOMAIN db.seasons, category_id \in DOMAIN db.categories,
          code \in CodeArgs, kwargs \in KwargsArgs :
          Returns(get_or_create_group(Conn, season, category_id, code, kwargs),
                  <<"get_or_create_group", season, category_id, code, kwargs>>)
    /\ UNCHANGED runVars

\* import_history returns nothing.
ImportHistoryData ==
    /\ calls < MaxCalls
    /\ calls' = calls + 1
    /\ \E season \in DOMAIN db.seasons, history_data \in HistoryArgs :
          Returns([c |-> import_history(Conn, season, history_data), id |-> 0],
                  <<"import_history", season, history_data>>)
    /\ UNCHANGED runVars

NextStore ==
    \/ GetOrCreateSeason
    \/ GetOrCreateCategory
    \/ GetOrCreateTeam
    \/ GetOrCreateGroup
    \/ ImportHistoryData

SpecStore == InitStore /\ [][NextStore]_vars

\* The rows of a table a key picks out.
TeamsNamed(d, name) == {i \in DOMAIN d.teams : d.teams[i].name = name}
GroupsOfKey(d, season, category_id, code) ==
    {i \in DOMAIN d.groups :
        /\ d.groups[i].season_id = season
        /\ d.groups[i].category_id = category_id
        /\ d.groups[i].code = code}

\* No two rows of teams, groups or matches share their natural key.
NaturalKeysUnique(d) ==
    /\ \A i, j \in DOMAIN d.teams : d.teams[i].name = d.teams[j].name => i = j
    /\ \A i, j \in DOMAIN d.groups :
          j \in GroupsOfKey(d, d.groups[i].season_id, d.groups[i].category_id,
                            d.groups[i].code) => i = j
    /\ \A i, j \in DOMAIN d.matches : SameKey(d.matches[i], d.matches[j]) => i = j

(***************************************************************************)
(* C2.  Whatever calls are made, no two team rows share a name, no two     *)
(* group rows share (season, category, code) and no two match rows share   *)
(* (group, matchday, home team, away team); get_or_create_team and         *)
(* get_or_create_group, called with the key of a stored row, return the id *)
(* of that row and add no row.                                             *)
(***************************************************************************)
C2_NaturalKeysUnique ==
    [][/\ NaturalKeysUnique(db) /\ NaturalKeysUnique(db')
       /\ NaturalKeysUnique(disk')
       /\ (calls' = calls + 1 /\ call'[1] = "get_or_create_team"
              /\ TeamsNamed(db, call'[2]) # {}) =>
            /\ ret' \in TeamsNamed(db, call'[2])
            /\ Len(db'.teams) = Len(db.teams)
       /\ (calls' = calls + 1 /\ call'[1] = "get_or_create_group"
              /\ GroupsOfKey(db, call'[2], call'[3], call'[4]) # {}) =>
            /\ ret' \in GroupsOfKey(db, call'[2], call'[3], call'[4])
            /\ Len(db'.groups) = Len(db.groups)]_vars

\* The second of two calls for the new team T4 has returned the id the first
\* gave it, and the store holds the one row.
C2_RepeatedGetOrCreate ==
    /\ calls = 2
    /\ call[1] = "get_or_create_team" /\ call[2] = "T4"
    /\ Len(db.teams) = Len(base.teams) + 1
    /\ ret = Len(base.teams) + 1
    /\ TeamsNamed(db, "T4") = {ret}
    /\ db.teams[ret].shield_filename = "t1.png"
    /\ call[3] = None

(***************************************************************************)
(* C5.  get_or_create_group on a stored group changes the fields whose     *)
(* argument is given and not None, to the argument; get_or_create_team on  *)
(* a stored team changes the shield, and only when the shield passed is    *)
(* neither None nor empty; every other column, row and table is as before. *)
(***************************************************************************)
C5_UpsertKeepsStoredValues ==
    [][/\ (calls' = calls + 1 /\ call'[1] = "get_or_create_team"
              /\ TeamsNamed(db, call'[2]) # {}) =>
            LET id == CHOOSE i \in TeamsNamed(db, call'[2]) : TRUE IN
            /\ db' = [db EXCEPT !.teams[id].shield_filename =
                        IF call'[3] # None /\ call'[3] # "" THEN call'[3] ELSE @]
       /\ (calls' = calls + 1 /\ call'[1] = "get_or_create_group"
              /\ GroupsOfKey(db, call'[2], call'[3], call'[4]) # {}) =>
            LET id == CHOOSE i \in GroupsOfKey(db, call'[2], call'[3], call'[4]) : TRUE
                kwargs == call'[5]
            IN db' = [db EXCEPT !.groups[id] =
                        [f \in DOMAIN @ |->
                            IF f \in DOMAIN kwargs /\ kwargs[f] # None
                            THEN kwargs[f] ELSE @[f]]]]_vars

\* Group A, stored with an island and a url, was the target of a call that
\* passed island=None and a url: the island is the stored one, the url the
\* passed one.
C5_GroupPatchedWithNone ==
    /\ call # <<>>
    /\ call[1] = "get_or_create_group"
    /\ call[4] = "A"
    /\ ret = 1
    /\ "island" \in DOMAIN call[5] /\ call[5].island = None
    /\ base.groups[1].island = "tenerife"
    /\ db.groups[1].island = "tenerife"
    /\ base.groups[1].url = "u/old"
    /\ db.groups[1].url = "u/new"

(***************************************************************************)
(* C10.  Whatever get_or_create_season calls are made, at most one season  *)
(* row carries the current flag.                                           *)
(***************************************************************************)
C10_OneCurrentSeason ==
    Cardinality({i \in DOMAIN db.seasons : db.seasons[i].is_current = 1}) <= 1

(***************************************************************************)
(* generate_js.py run over a store, any day, again and again; between two  *)
(* runs of it import_existing.py may import another snapshot.              *)
(***************************************************************************)
MaxGens == 2
MaxDay == 2
MaxImports == 1

InitGen ==
    /\ disk \in GenStores
    /\ db = disk
    /\ base = disk
    /\ files = NoFiles
    /\ pc = "idle"
    /\ season_id = 0
    /\ first = EmptyDb
    /\ runs = 0
    /\ kills = 0
    /\ killed_at = ""
    /\ call = <<>>
    /\ ret = 0
    /\ calls = 0
    /\ out = NoOutput
    /\ prev = <<>>
    /\ gens = 0
    /\ today = 0
    /\ NotLoaded

\* python3 scripts/generate_js.py, on a day that is not before the day of
\* the last run.
Generate ==
    /\ gens < MaxGens
    /\ \E day \in 1..MaxDay :
        /\ day >= today
        /\ today' = day
        /\ out' = generate_main(disk, out, day)
    /\ prev' = out
    /\ gens' = gens + 1
    /\ UNCHANGED <<db, disk, files, base, pc, season_id, first, runs, kills,
                   killed_at, call, ret, calls, appVars>>

\* python3 scripts/import_existing.py over the files of a snapshot, to its end.
ImportSnapshot ==
    /\ runs < MaxImports
    /\ \E f \in GenSnapshots :
        /\ files' = f
        /\ disk' = main(disk, f).disk
        /\ db' = main(disk, f).disk
    /\ runs' = runs + 1
    /\ gens' = 0
    /\ UNCHANGED <<base, pc, season_id, first, kills, killed_at, call, ret, calls,
                   out, prev, today, appVars>>

NextGen ==
    \/ Generate
    \/ ImportSnapshot

SpecGen == InitGen /\ [][NextGen]_vars

\* Two rows that tie on the ordering column of their SELECT: standings on the
\* position, matches of a group's current matchday on date and time, goals of
\* a match on the minute, scorers of a group on goals and games.
Tie(table, Same(_, _)) ==
    \E i, j \in DOMAIN table : i < j /\ Same(table[i], table[j])

TiesIn(d) ==
    /\ Tie(d.standings, LAMBDA a, b : a.group_id = b.group_id /\ a.position = b.position)
    /\ Tie(d.matches, LAMBDA a, b : /\ a.group_id = b.group_id
                                    /\ a.jornada = b.jornada
                                    /\ a.jornada = d.groups[a.group_id].current_jornada
                                    /\ a.date = b.date /\ a.time = b.time)
    /\ Tie(d.goals, LAMBDA a, b : a.match_id = b.match_id /\ a.minute = b.minute)
    /\ Tie(d.scorers, LAMBDA a, b : /\ a.group_id = b.group_id
                                    /\ a.goals = b.goals /\ a.games = b.games)

NumericSuffix(label) ==
    CHOOSE n \in 0..MaxJornada :
        \E prefix \in {"Jornada ", "JORNADA "} : label = prefix \o ToString(n)

\* The scored matches the store holds for a group and a matchday, as rows
\* [date, home, away, hs, as] of the history file.
ScoredMatchesOf(d, gid, label) ==
    {<<m.date, d.teams[m.home_team_id].name, d.teams[m.away_team_id].name,
       m.home_score, m.away_score>> :
        m \in {x \in Range(d.matches) :
                /\ x.group_id = gid /\ x.jornada = label
                /\ x.home_score # NULL /\ x.away_score # NULL}}

\* The matchdays of a group with at least one scored match.
ScoredLabelsOf(d, gid) ==
    {m.jornada : m \in {x \in Range(d.matches) :
                /\ x.group_id = gid /\ x.home_score # NULL /\ x.away_score # NULL}}

(***************************************************************************)
(* C12.  After a run of the generator the history file holds, for every    *)
(* group of the current season, under the group's code: one entry for each *)
(* matchday of the group with at least one scored match and no other       *)
(* entry, the matchdays in ascending order of their numeric suffix, and    *)
(* under each matchday exactly the scored matches of that group and        *)
(* matchday, each once.                                                    *)
(***************************************************************************)
C12_HistoryHoldsEachGroup ==
    gens >= 1 =>
        \A gid \in DOMAIN disk.groups :
            disk.groups[gid].season_id = CurrentSeason(disk) =>
                LET entry == Entry(out.history, disk.groups[gid].code) IN
                /\ {entry[i][1] : i \in DOMAIN entry} = ScoredLabelsOf(disk, gid)
                /\ \A i \in DOMAIN entry :
                    /\ Range(entry[i][2]) = ScoredMatchesOf(disk, gid, entry[i][1])
                    /\ Len(entry[i][2]) = Cardinality(Range(entry[i][2]))
                /\ \A i, j \in DOMAIN entry :
                    i < j => NumericSuffix(entry[i][1]) <= NumericSuffix(entry[j][1])

\* The goal rows the store holds for a match, in rowid order, as rows
\* [minute, player, running_score, side, type] of the match-detail file.
GoalRows(d, mid) ==
    LET rows == SelectSeq(d.goals, LAMBDA g : g.match_id = mid) IN
    [i \in DOMAIN rows |->
        <<rows[i].minute, rows[i].player_name, rows[i].running_score,
          rows[i].side, rows[i].type>>]

\* Two lists hold the same rows, each as often.
SameRows(a, b) ==
    /\ Len(a) = Len(b)
    /\ \A x \in Range(a) :
        Cardinality({i \in DOMAIN a : a[i] = x}) = Cardinality({i \in DOMAIN b : b[i] = x})

\* The scored matches with at least one goal, and the key of a match.
ScoredWithGoals(d) ==
    {m \in Range(d.matches) :
        /\ m.home_score # NULL /\ m.away_score # NULL
        /\ GoalRows(d, m.id) # <<>>}

KeyOf(d, m) ==
    DetailKey(d.teams[m.home_team_id].name, d.teams[m.away_team_id].name,
              m.home_score, m.away_score)

\* The place of a match in the order generate_matchdetail handles them in.
Turn(d, m) ==
    CHOOSE i \in DOMAIN MatchesWithGoals(d) : MatchesWithGoals(d)[i] = m.id

(***************************************************************************)
(* C13.  After a run of the generator the match-detail file has, for every *)
(* scored match with at least one goal, an entry under the key             *)
(* "home|away|hs-as" of the match; the goal list of the entry is the goals *)
(* of the match of that key the generator handled last, in ascending order *)
(* of the minute; and every entry of the file is the entry of such a       *)
(* match, so a key under which no match has goals has no entry.            *)
(***************************************************************************)
C13_DetailHoldsLastMatchOfKey ==
    gens >= 1 =>
        /\ \A m \in ScoredWithGoals(disk) :
            LET entry == Entry(out.matchdetail, KeyOf(disk, m))
                last == CHOOSE n \in ScoredWithGoals(disk) :
                            /\ KeyOf(disk, n) = KeyOf(disk, m)
                            /\ \A o \in ScoredWithGoals(disk) :
                                KeyOf(disk, o) = KeyOf(disk, m) =>
                                    Turn(disk, o) <= Turn(disk, n)
            IN /\ entry # <<>>
               /\ SameRows(entry.g, GoalRows(disk, last.id))
               /\ \A i, j \in DOMAIN entry.g : i < j => entry.g[i][1] <= entry.g[j][1]
        /\ \A i \in DOMAIN out.matchdetail :
            \E m \in ScoredWithGoals(disk) : KeyOf(disk, m) = out.matchdetail[i][1]
        /\ \A i, j \in DOMAIN out.matchdetail :
            out.matchdetail[i][1] = out.matchdetail[j][1] => i = j

\* Two distinct matches of one key, both with goals, the goals of the two
\* differ, and one match has its goals stored out of the order of the minute.
C13_TwoMatchesOfOneKey ==
    /\ gens >= 1
    /\ \E m, n \in ScoredWithGoals(disk) :
        /\ m.id # n.id
        /\ KeyOf(disk, m) = KeyOf(disk, n)
        /\ ~SameRows(GoalRows(disk, m.id), GoalRows(disk, n.id))
    /\ \E m \in ScoredWithGoals(disk) :
        \E i, j \in DOMAIN GoalRows(disk, m.id) :
            i < j /\ GoalRows(disk, m.id)[i][1] > GoalRows(disk, m.id)[j][1]

(***************************************************************************)
(* The functions of app.js that compute a view from HISTORY and            *)
(* MATCH_DETAIL: the form column of a standings row and the modal of a     *)
(* match.  `call' is the call and `ret' what it returned, `modal' what the *)
(* modal shows.                                                            *)
(***************************************************************************)
InitView ==
    /\ data \in AppData
    /\ S = <<>> /\ view = <<>> /\ modal = <<>> /\ sw = <<>>
    /\ call = <<>> /\ ret = <<>> /\ calls = 0
    /\ NotGenerated
    /\ files = NoFiles /\ disk = EmptyDb /\ db = EmptyDb /\ base = EmptyDb
    /\ pc = "idle" /\ season_id = 0 /\ first = EmptyDb
    /\ runs = 0 /\ kills = 0 /\ killed_at = ""

viewFrame == <<files, disk, db, base, pc, season_id, first, runs, kills, killed_at, calls,
               genVars, S, data, view, sw>>

\* const form = getTeamForm(row[1], groupId), or a call with n.
GetTeamForm ==
    \E teamName \in AppTeams, groupId \in AppGroups, n \in 0..(DefaultN + 1) :
        /\ modal = <<>>
        /\ call' = <<"getTeamForm", teamName, groupId, n>>
        /\ ret' = getTeamForm(data.HISTORY, teamName, groupId, n)
        /\ UNCHANGED <<viewFrame, modal>>

\* openMatchDetail(match) of a played match; the open modal covers the page.
OpenMatchDetail ==
    \E home \in AppTeams, away \in AppTeams, score \in {<<1, 0>>, <<2, 0>>, <<2, 2>>},
       groupId \in AppGroups :
        /\ home # away
        /\ modal = <<>>
        /\ call' = <<"openMatchDetail", home, away, score[1], score[2], groupId>>
        /\ modal' = [kind |-> "match",
                     home |-> home, away |-> away, hs |-> score[1], as |-> score[2],
                     groupId |-> groupId,
                     h2h |-> H2HBlock(data.HISTORY, groupId, home, away),
                     goals |-> GoalsBlock(data.MATCH_DETAIL, home, away, score[1], score[2])]
        /\ ret' = <<>>
        /\ UNCHANGED viewFrame

\* openTeamDetail(teamName, groupId), from a team name of a standings row or
\* of a match card; it returns early for a group that is in no category.
OpenTeamDetail ==
    \E teamName \in AppTeams, groupId \in AppGroups :
        /\ modal = <<>>
        /\ call' = <<"openTeamDetail", teamName, groupId>>
        /\ modal' = openTeamDetail(data, teamName, groupId)
        /\ ret' = <<>>
        /\ UNCHANGED viewFrame

\* closeModal()
CloseModal ==
    /\ modal # <<>>
    /\ modal' = <<>>
    /\ call' = <<"closeModal">>
    /\ ret' = <<>>
    /\ UNCHANGED viewFrame

NextView == GetTeamForm \/ OpenMatchDetail \/ OpenTeamDetail \/ CloseModal

\* The modal of a match, of a team, is open.
MatchShown == modal # <<>> /\ modal.kind = "match"
TeamShown == modal # <<>> /\ modal.kind = "team"

SpecView == InitView /\ [][NextView]_vars

(***************************************************************************)
(* The form of a team, stated over the history file.                       *)
(***************************************************************************)
\* The places <<matchday, match>> of the history of a group where a team
\* played a match with a score.
PlayedBy(teamName, groupId) ==
    LET hist == Entry(data.HISTORY, groupId) IN
    {p \in UNION {{<<i, j>> : j \in DOMAIN hist[i][2]} : i \in DOMAIN hist} :
        LET m == hist[p[1]][2][p[2]] IN
        /\ m[4] # NULL /\ m[5] # NULL
        /\ teamName \in {m[2], m[3]}}

\* The match at a place of the history of a group, and the number and the
\* label of its matchday.
MatchAt(groupId, p) == Entry(data.HISTORY, groupId)[p[1]][2][p[2]]
LabelAt(groupId, p) == Entry(data.HISTORY, groupId)[p[1]][1]
NumberAt(groupId, p) == NumericSuffix(LabelAt(groupId, p))

\* p is earlier than q: by matchday number, then by date, then by the place
\* in the file.
Earlier(groupId, p, q) ==
    LET np == NumberAt(groupId, p)
        nq == NumberAt(groupId, q)
        dp == Rank(MatchAt(groupId, p)[1])
        dq == Rank(MatchAt(groupId, q)[1])
    IN \/ np < nq
       \/ np = nq /\ dp < dq
       \/ np = nq /\ dp = dq /\ (p[1] < q[1] \/ (p[1] = q[1] /\ p[2] < q[2]))

\* How the match at a place ended for a team.
Outcome(teamName, groupId, p) ==
    LET m == MatchAt(groupId, p)
        mine == IF m[2] = teamName THEN m[4] ELSE m[5]
        theirs == IF m[2] = teamName THEN m[5] ELSE m[4]
    IN IF mine > theirs THEN "W" ELSE IF mine = theirs THEN "D" ELSE "L"

\* The outcomes a form holds.
Outcomes(form) == [k \in DOMAIN form |-> form[k].result]

\* The form returned is the outcomes of the last n scored matches of the team,
\* the oldest first: its k-th entry is the match with Len - k later ones.
FormIsLastN ==
    (call # <<>> /\ call[1] = "getTeamForm") =>
        LET teamName == call[2]
            groupId == call[3]
            n == IF call[4] = 0 THEN 5 ELSE call[4]
            played == PlayedBy(teamName, groupId)
            Later(p) == Cardinality({q \in played : Earlier(groupId, p, q)})
        IN /\ Len(ret) <= n
           /\ Len(ret) = IF Cardinality(played) < n THEN Cardinality(played) ELSE n
           /\ \A k \in DOMAIN ret :
                \E p \in played :
                    /\ Later(p) = Len(ret) - k
                    /\ ret[k].result = Outcome(teamName, groupId, p)
                    /\ ret[k].jorNum = NumberAt(groupId, p)
           /\ Entry(data.HISTORY, groupId) = <<>> => ret = <<>>

\* The form of T1 in group A2 is asked for with n = 5 or without n.
FormOfSevenAsked ==
    /\ data = Handkept
    /\ call # <<>> /\ call[1] = "getTeamForm"
    /\ call[2] = "T1" /\ call[3] = "A2" /\ call[4] \in {0, 5}

\* C14 (as amended): getTeamForm(team, group, n) returns the outcomes, as the
\* team sees them, of the team's last n scored matches in the history of the
\* group, ordered by matchday number and then by date, the oldest of the
\* window first; it has at most n entries (5 when n is not given) and is
\* empty when the group has no history; for a history W, L, D, W, W, L, D in
\* matchday order and n = 5 it is D, W, W, L, D.
C14_FormIsLastFive ==
    /\ FormIsLastN
    /\ FormOfSevenAsked => Outcomes(ret) = <<"D", "W", "W", "L", "D">>

\* C14 (as stated): the same, with the form L, W, W, L, D for the history
\* W, L, D, W, W, L, D and n = 5.
C14_FormAsStated ==
    /\ FormIsLastN
    /\ FormOfSevenAsked => Outcomes(ret) = <<"L", "W", "W", "L", "D">>

\* The form of T1 over its seven matchdays was asked for without n, and two
\* of the seven matches fell out of the window.
C14_FormOfSevenReturned ==
    /\ FormOfSevenAsked
    /\ call[4] = 0
    /\ Cardinality(PlayedBy("T1", "A2")) = 7
    /\ Len(ret) = 5

(***************************************************************************)
(* The head-to-head list of the modal.                                     *)
(***************************************************************************)
\* C15: the head-to-head list of a group is the same for (home = A, away = B)
\* and for (home = B, away = A), the same matches in the same order, and an
\* empty list is shown as the text that there are no earlier meetings: the
\* modal opens, nothing is raised.
C15_HeadToHeadSymmetric ==
    MatchShown =>
        /\ modal.h2h.list = HeadToHead(data.HISTORY, modal.groupId, modal.away, modal.home)
        /\ modal.h2h = H2HBlock(data.HISTORY, modal.groupId, modal.away, modal.home)
        /\ (Entry(data.HISTORY, modal.groupId) # <<>> /\ modal.h2h.list = <<>>)
                => modal.h2h.shown = "empty"
        /\ modal.h2h.shown = "list" <=> modal.h2h.list # <<>>

\* The modal of a match shows meetings at the ground of either team.
C15_MetHomeAndAway ==
    /\ MatchShown
    /\ \E i, j \in DOMAIN modal.h2h.list :
        /\ modal.h2h.list[i].home = modal.home
        /\ modal.h2h.list[j].home = modal.away

\* The places of the history of a group where two teams played each other a
\* match with a score.
PlayedBetween(groupId, a, b) == PlayedBy(a, groupId) \cap PlayedBy(b, groupId)

\* The head-to-head list holds each match between the two teams once and no
\* other match.
ListsMeetings(list, groupId, a, b) ==
    /\ Len(list) = Cardinality(PlayedBetween(groupId, a, b))
    /\ \A p \in PlayedBetween(groupId, a, b) :
        \E k \in DOMAIN list :
            /\ list[k].jornada = LabelAt(groupId, p)
            /\ <<list[k].date, list[k].home, list[k].away, list[k].hs, list[k].as>>
                    = MatchAt(groupId, p)

\* The list is in the order of the matchday numbers and, within one number,
\* of the dates.
InMatchdayOrder(list) ==
    \A k \in 1..(Len(list) - 1) :
        \/ NumericSuffix(list[k].jornada) < NumericSuffix(list[k + 1].jornada)
        \/ /\ NumericSuffix(list[k].jornada) = NumericSuffix(list[k + 1].jornada)
           /\ Rank(list[k].date) <= Rank(list[k + 1].date)

\* C16: for every history of a group the head-to-head list of two teams holds
\* exactly the scored matches between them, whoever played at home, ordered by
\* matchday number ascending and then by date.
C16_HeadToHeadInMatchdayOrder ==
    MatchShown =>
        /\ ListsMeetings(modal.h2h.list, modal.groupId, modal.home, modal.away)
        /\ InMatchdayOrder(modal.h2h.list)

(***************************************************************************)
(* The page: the selection state S over the arrays `data', and the view of *)
(* the active section.  `call' is the event handled last.                  *)
(***************************************************************************)
\* What the user types into the search box.
SearchTerms == {"", " T1 ", "t1", "zz"}

Categories == {"benjamin", "prebenjamin"}
Sections == {"clasif", "jornadas", "goleadores", "isla"}

appFrame == <<files, disk, db, base, pc, season_id, first, runs, kills, killed_at, ret, calls,
              genVars, data, modal, sw>>

\* DOMContentLoaded: updateStats(); renderSection(); bindEvents()
InitApp ==
    /\ data \in AppData
    /\ S = renderSection(InitialS, data).S
    /\ view = renderSection(InitialS, data).view
    /\ modal = <<>> /\ sw = <<>>
    /\ call = <<>> /\ ret = <<>> /\ calls = 0
    /\ NotGenerated
    /\ files = NoFiles /\ disk = EmptyDb /\ db = EmptyDb /\ base = EmptyDb
    /\ pc = "idle" /\ season_id = 0 /\ first = EmptyDb
    /\ runs = 0 /\ kills = 0 /\ killed_at = ""

\* click on a .cat-btn
ClickCategory ==
    \E cat \in Categories :
        /\ S' = renderSection(CategoryClicked(S, cat), data).S
        /\ view' = renderSection(CategoryClicked(S, cat), data).view
        /\ call' = <<"category", cat>>
        /\ UNCHANGED appFrame

\* click on a .section-tab
ClickSection ==
    \E section \in Sections :
        /\ S' = renderSection(SectionClicked(S, section), data).S
        /\ view' = renderSection(SectionClicked(S, section), data).view
        /\ call' = <<"section", section>>
        /\ UNCHANGED appFrame

\* input in #searchInput
InputSearch ==
    \E text \in SearchTerms :
        LET typed == [S EXCEPT !.search = ToLowerCase(Trim(text))] IN
        /\ S' = IF S.section \in {"clasif", "isla"} THEN renderSection(typed, data).S ELSE typed
        /\ view' = IF S.section \in {"clasif", "isla"} THEN renderSection(typed, data).view
                   ELSE view
        /\ call' = <<"search", text>>
        /\ UNCHANGED appFrame

\* change of #jorGroupSelect: no group, or a group of the category.
ChangeJorGroup ==
    /\ S.section = "jornadas"
    /\ \E value \in {""} \cup Range(Ids(getData(S, data))) :
        LET picked == [S EXCEPT !.jorGroup = value, !.jorNum = ""] IN
        /\ S' = renderJornadaContent(picked, data, view).S
        /\ view' = renderJornadaContent(picked, data, view).view
        /\ call' = <<"jorGroup", value>>
        /\ UNCHANGED appFrame

\* click on a .jornada-pill of a group with a history.
ClickPill ==
    /\ S.section = "jornadas"
    /\ \E i \in DOMAIN view.pills :
        LET j == view.pills[i][1]
            group == SelectSeq(getData(S, data), LAMBDA g : g.id = S.jorGroup)[1]
        IN /\ view.pills[i][2] # "only"
           /\ S' = [S EXCEPT !.jorNum = j]
           /\ view' = [view EXCEPT
                        !.pills = MoveActive(view.pills, i),
                        !.matches = IF view.pills[i][2] = "current" THEN CurrentCards(group)
                                    ELSE getJornadaMatches(S, data, j)]
           /\ call' = <<"pill", j>>
           /\ UNCHANGED appFrame

\* change of #golGroupSelect
ChangeGolGroup ==
    LET golData == IF S.cat = "benjamin" THEN data.GOL_BENJ ELSE data.GOL_PREBENJ IN
    /\ S.section = "goleadores"
    /\ golData # <<>>
    /\ \E value \in {"__GLOBAL__"} \cup {golData[i].g : i \in DOMAIN golData} :
        LET picked == [S EXCEPT !.golGroup = value] IN
        /\ S' = renderGolTable(picked, data, view).S
        /\ view' = renderGolTable(picked, data, view).view
        /\ call' = <<"golGroup", value>>
        /\ UNCHANGED appFrame

\* click on an .island-tab
ClickIsland ==
    /\ S.section = "isla"
    /\ \E isl \in Range(Islands) \cap Range(availableIslands(S, data)) :
        LET picked == [S EXCEPT !.island = isl] IN
        /\ S' = renderIsla(picked, data).S
        /\ view' = renderIsla(picked, data).view
        /\ call' = <<"island", isl>>
        /\ UNCHANGED appFrame

NextApp ==
    \/ ClickCategory
    \/ ClickSection
    \/ InputSearch
    \/ ChangeJorGroup
    \/ ClickPill
    \/ ChangeGolGroup
    \/ ClickIsland

SpecApp == InitApp /\ [][NextApp]_vars

(***************************************************************************)
(* The scorer ranking, stated over the scorer file of the category.        *)
(***************************************************************************)
\* The scorer file of the active category and the places <<group, row>> of
\* its rows.
GolData == IF S.cat = "benjamin" THEN data.GOL_BENJ ELSE data.GOL_PREBENJ
ScorerPlaces == UNION {{<<i, j>> : j \in DOMAIN GolData[i].s} : i \in DOMAIN GolData}

\* The row at p ranks above the row at q: more goals, or as many goals in
\* fewer games, or as many of both and met earlier in the file.
RanksAbove(p, q) ==
    LET a == GolData[p[1]].s[p[2]]
        b == GolData[q[1]].s[q[2]]
    IN \/ a[3] > b[3]
       \/ a[3] = b[3] /\ a[4] < b[4]
       \/ a[3] = b[3] /\ a[4] = b[4] /\ (p[1] < q[1] \/ (p[1] = q[1] /\ p[2] < q[2]))

\* The global ranking is shown.
GlobalShown ==
    /\ S.section = "goleadores"
    /\ S.golGroup = "__GLOBAL__"
    /\ GolData # <<>>

\* C17: the global scorer ranking merges the scorer rows of all groups of the
\* active category, each with its group, orders them by goals descending and
\* then games ascending, keeps rows equal in both in the order of the scan,
\* and shows at most the first 30; for (P1, 5 goals, 3 games), (P2, 5, 2),
\* (P3, 7, 4) the order is P3, P2, P1.
C17_GlobalRankingTop30 ==
    GlobalShown =>
        /\ Len(view.rows) <= 30
        /\ Len(view.rows) = IF Cardinality(ScorerPlaces) < 30
                            THEN Cardinality(ScorerPlaces) ELSE 30
        /\ \A k \in DOMAIN view.rows :
            \E p \in ScorerPlaces :
                /\ Cardinality({q \in ScorerPlaces : RanksAbove(q, p)}) = k - 1
                /\ view.rows[k] = [name |-> GolData[p[1]].s[p[2]][1],
                                   team |-> GolData[p[1]].s[p[2]][2],
                                   goals |-> GolData[p[1]].s[p[2]][3],
                                   games |-> GolData[p[1]].s[p[2]][4],
                                   group |-> GolData[p[1]].g]
        /\ (data = Handkept /\ S.cat = "prebenjamin")
                => [k \in DOMAIN view.rows |-> view.rows[k].name] = <<"P3", "P2", "P1">>

\* The ranking of more than 30 scorers of two groups is shown, cut, with
\* rows of equal goals and games from both groups in it.
C17_RankingCutAmongEquals ==
    /\ GlobalShown
    /\ Cardinality(ScorerPlaces) > 30
    /\ Len(view.rows) = 30
    /\ \E k \in 1..29 :
        /\ view.rows[k].goals = view.rows[k + 1].goals
        /\ view.rows[k].games = view.rows[k + 1].games
        /\ view.rows[k].group # view.rows[k + 1].group

(***************************************************************************)
(* The matchday pills of the matchday section.                             *)
(***************************************************************************)
\* The labels of a list of pills, and those of one kind.
PillLabels(pills) == [k \in DOMAIN pills |-> pills[k][1]]
PillsOfKind(kind) == SelectSeq(view.pills, LAMBDA pill : pill[2] = kind)

\* A list of labels ascends in the number the labels hold.
Ascending(labels) ==
    \A k \in 1..(Len(labels) - 1) :
        NumericSuffix(labels[k]) <= NumericSuffix(labels[k + 1])

\* The matchday section shows the pills of a group with a history.
HistoryShown ==
    /\ S.section = "jornadas"
    /\ view.pills # <<>>
    /\ Entry(data.HISTORY, S.jorGroup) # <<>>

\* The labels the history file holds for the selected group, in file order.
FileLabels == [i \in DOMAIN Entry(data.HISTORY, S.jorGroup) |->
                    Entry(data.HISTORY, S.jorGroup)[i][1]]

\* C18 (as amended): matchday labels are ordered by the number they hold, not
\* as texts: the matchdays of the history of a group are listed ascending in
\* that number, each once, so "Jornada 10", "Jornada 2", "Jornada 1" is
\* listed "Jornada 1", "Jornada 2", "Jornada 10", and the history file the
\* generator writes holds them in that order already; the current matchday
\* of the group, when the history does not hold it, is listed after them,
\* whatever its number.
C18_HistoryPillsAscending ==
    /\ HistoryShown =>
        /\ Ascending(PillLabels(PillsOfKind("history")))
        /\ Len(PillsOfKind("history")) = Len(FileLabels)
        /\ Range(PillLabels(PillsOfKind("history"))) = Range(FileLabels)
        /\ Len(PillsOfKind("current")) <= 1
        /\ view.pills = PillsOfKind("history") \o PillsOfKind("current")
        /\ \A k \in DOMAIN view.pills :
                view.pills[k][2] = "current" => view.pills[k][1] \notin Range(FileLabels)
        /\ FileLabels = <<"Jornada 10", "Jornada 2", "Jornada 1">>
                => PillLabels(view.pills) = <<"Jornada 1", "Jornada 2", "Jornada 10">>
    /\ data # Handkept =>
        \A i \in DOMAIN data.HISTORY :
            Ascending([j \in DOMAIN data.HISTORY[i][2] |-> data.HISTORY[i][2][j][1]])

\* C18 (as stated): the matchday list shown for a group is ascending in the
\* number contained in the label, for every set of labels.
C18_PillsAscending ==
    S.section = "jornadas" => Ascending(PillLabels(view.pills))

\* The pills of a history that the file does not hold in order are shown,
\* the current matchday among them as the extra pill.
C18_UnorderedHistoryShown ==
    /\ HistoryShown
    /\ ~Ascending(FileLabels)
    /\ Len(FileLabels) > 3
    /\ Len(PillsOfKind("current")) = 1

(***************************************************************************)
(* What a click on a category button or on a section tab leaves selected.  *)
(***************************************************************************)
\* The groups of a category, and whether one of them has the id.
CategoryGroups(cat) == IF cat = "benjamin" THEN data.BENJAMIN ELSE data.PREBENJAMIN
IsGroupOf(cat, groupId) ==
    \E i \in DOMAIN CategoryGroups(cat) : CategoryGroups(cat)[i].id = groupId

\* The group a category starts with.
DefaultGroup(cat) == IF cat = "benjamin" THEN "A2" ELSE "PG2"

\* The matchday a render of the matchday section leaves selected for a group:
\* a matchday of the history of the group of the highest number, or none
\* when the category has no such group or the group no history.
MatchdayResolved(jorNum, cat, groupId) ==
    LET hist == Entry(data.HISTORY, groupId)
        labels == {hist[i][1] : i \in DOMAIN hist}
    IN IF IsGroupOf(cat, groupId) /\ hist # <<>>
       THEN /\ jorNum \in labels
            /\ \A l \in labels : NumericSuffix(l) <= NumericSuffix(jorNum)
       ELSE jorNum = ""

\* The island a render of the island section leaves selected: the one
\* selected when the category has a group on it, else the island of the
\* first group of the category, or grancanaria when that has none.
IslandResolved(islandAfter, island, cat) ==
    LET groups == CategoryGroups(cat) IN
    IF \E i \in DOMAIN groups : groups[i].island = island THEN islandAfter = island
    ELSE IF groups = <<>> \/ groups[1].island \in {"", None} THEN islandAfter = "grancanaria"
    ELSE islandAfter = groups[1].island

\* The step is the click on a category button, on a section tab.
IsCategoryClick == call' # <<>> /\ call'[1] = "category"
IsSectionClick == call' # <<>> /\ call'[1] = "section"

IsSearchInput == call' # <<>> /\ call'[1] = "search"

\* The ids of the groups of a list that have a team whose name, in lower
\* case, holds the term; of all of them for no term.
GroupsHolding(groups, term) ==
    LET lower == [name \in {"T1", "T2", "T3"} |->
                    CASE name = "T1" -> "t1" [] name = "T2" -> "t2" [] name = "T3" -> "t3"]
        holds(g) == \E i \in DOMAIN g.standings, before \in {"", "t"}, after \in {"", "1", "2", "3"} :
                        lower[g.standings[i][2]] = before \o term \o after
    IN {g.id : g \in {x \in Range(groups) : term = "" \/ holds(x)}}

\* C21: a search input sets the search term to the input, trimmed and in lower
\* case, and touches no other field of the selection (category, section,
\* group, matchday, scorer scope, island); the view is rendered again only
\* when the active section is the standings or the by-island section, and
\* then shows the groups that hold the term.
C21_SearchSetsTermOnly ==
    [][IsSearchInput =>
        /\ call'[2] = "" => S'.search = ""
        /\ call'[2] = " T1 " => S'.search = "t1"
        /\ call'[2] = "t1" => S'.search = "t1"
        /\ call'[2] = "zz" => S'.search = "zz"
        /\ [S' EXCEPT !.search = ""] = [S EXCEPT !.search = ""]
        /\ S.section \notin {"clasif", "isla"} => view' = view
        /\ S.section = "clasif" =>
                Range(view'.groups) = GroupsHolding(CategoryGroups(S.cat), S'.search)
        /\ S.section = "isla" =>
                Range(view'.groups) =
                    GroupsHolding(SelectSeq(CategoryGroups(S.cat),
                                            LAMBDA g : g.island = S.island), S'.search)]_vars

\* A team name was typed in capitals between blanks in the by-island section
\* with an island selected by a click, and a group of the island is filtered
\* out.
C21_SearchedByIsland ==
    /\ call # <<>> /\ call[1] = "search" /\ call[2] = " T1 "
    /\ S.section = "isla"
    /\ S.search = "t1"
    /\ S.island # "grancanaria"
    /\ Len(view.groups) < Len(SelectSeq(CategoryGroups(S.cat), LAMBDA g : g.island = S.island))

(***************************************************************************)
(* The island of the by-island section.                                    *)
(***************************************************************************)
\* The category has a group on the island.
HasGroupOn(cat, island) ==
    \E i \in DOMAIN CategoryGroups(cat) : CategoryGroups(cat)[i].island = island

\* C22: when the by-island view is rendered and the selected island has no
\* group in the data of the active category, the selection falls back to the
\* island of the first group in array order; after every render of the view
\* over data that is not empty the selected island is the island of at least
\* one group.
C22_IslandHasGroup ==
    [][(S'.section = "isla" /\ CategoryGroups(S'.cat) # <<>>) =>
        /\ HasGroupOn(S'.cat, S'.island)
        /\ (IsSectionClick /\ ~HasGroupOn(S.cat, S.island))
                => S'.island = CategoryGroups(S.cat)[1].island]_vars

(***************************************************************************)
(* The form strip of the team modal.                                       *)
(***************************************************************************)
\* C28: for every team and group the form strip of the team modal, the last
\* five results computed in openTeamDetail, is the same sequence of W, D and
\* L in the same order as getTeamForm(team, group, 5) shows in the standings
\* table, for every history, matches played out of matchday order and matches
\* with only one score recorded included.
C28_FormStripIsForm ==
    TeamShown =>
        Outcomes(modal.form) = Outcomes(getTeamForm(data.HISTORY, modal.team, modal.groupId, 5))

(***************************************************************************)
(* The active pill of the matchday section.                                *)
(***************************************************************************)
\* The pills that have the class 'active'.
ActivePills == {k \in DOMAIN view.pills : view.pills[k][3]}

\* The selected matchday is the label of a pill shown, one pill is active and
\* it is the pill of the selected matchday.
SelectedIsActive ==
    /\ \E k \in DOMAIN view.pills : view.pills[k][1] = S.jorNum
    /\ Cardinality(ActivePills) = 1
    /\ \A k \in ActivePills : view.pills[k][1] = S.jorNum

IsMatchdayEvent ==
    call' # <<>> /\ call'[1] \in {"pill", "jorGroup", "section", "category"}

Origin == "https://club.example"
Resolve(path) == <<Origin>> \o path

\* const ASSETS
ASSETS ==
    << Resolve(<<"/">>), Resolve(<<"/", "index.html">>), Resolve(<<"/", "style.css">>),
       Resolve(<<"/", "app.js">>), Resolve(<<"/", "data-benjamin", ".js">>),
       Resolve(<<"/", "data-prebenjamin", ".js">>), Resolve(<<"/", "data-history", ".js">>),
       Resolve(<<"/", "data-goleadores", ".js">>), Resolve(<<"/", "data-matchdetail", ".js">>),
       Resolve(<<"/", "data-shields", ".js">>) >>

\* const DATA_FILES
DATA_FILES ==
    <<"data-benjamin", "data-prebenjamin", "data-history", "data-goleadores",
      "data-matchdetail", "data-shields">>

\* Version 1 is src/sw.js, version 2 the worker of src/unnamed/part_001.
Versions == {1, 2}

\* const CACHE_NAME
CACHE_NAME(version) ==
    IF version = 1 THEN "futbolbase-v20260301" ELSE "futbolbase-v20260302c"

\* DATA_FILES.some(f => e.request.url.includes(f))
isDataFile(url) ==
    \E f \in DOMAIN DATA_FILES : \E k \in DOMAIN url : url[k] = DATA_FILES[f]

\* Only the later version tells data files from the rest.
NetworkFirst(version, url) == version = 2 /\ isDataFile(url)

\* Any URL at all.
Anywhere(url, origin) == TRUE

\* e.request.url.startsWith(self.location.origin): the URL begins with the
\* text of the origin, whatever follows it.
startsWith(url, origin) == url[1] = origin

\* The request is one to the origin of the worker.
SameOrigin(url) == url[1] = Origin /\ url[2] = "/"

\* The requests of the page: the root document, a data file, the data file
\* asked for with a query, an image that is no asset of the list, a style
\* sheet and a data file of another origin, and a script of an origin whose
\* name begins with the name of this one.
Requests ==
    { Resolve(<<"/", "index.html">>),
      Resolve(<<"/", "data-benjamin", ".js">>),
      Resolve(<<"/", "data-benjamin", ".js", "?v=2">>),
      Resolve(<<"/", "icon.png">>),
      <<"https://cdn.example", "/", "font.css">>,
      <<"https://cdn.example", "/", "data-benjamin", ".js">>,
      <<Origin, ".evil.example", "/", "x.js">> }

\* The status of a response of the network.
Statuses == {200, 404}

(***************************************************************************)
(* CacheStorage: the caches in the order of their creation, each a list of *)
(* the responses it holds under the URLs of their requests.                *)
(***************************************************************************)
\* caches.has(name)
has(storage, name) == \E i \in DOMAIN storage : storage[i][1] = name

\* caches.keys()
keys(storage) == [i \in DOMAIN storage |-> storage[i][1]]

\* caches.open(name): the cache of that name, made if there is none.
open(storage, name) ==
    IF has(storage, name) THEN storage ELSE Append(storage, <<name, <<>> >>)

\* caches.delete(name)
delete(storage, name) == SelectSeq(storage, LAMBDA cache : cache[1] # name)

\* cache.put(request, response) on the cache of that name.
put(storage, name, url, response) ==
    [i \in DOMAIN storage |->
        IF storage[i][1] = name
        THEN <<name, DictSet(storage[i][2], url, response)>>
        ELSE storage[i]]

\* The caches that hold a response under the URL.
Holding(storage, url) ==
    {i \in DOMAIN storage : \E k \in DOMAIN storage[i][2] : storage[i][2][k][1] = url}

\* caches.match(request): the response of the first cache, in the order of
\* creation, that holds one under the URL, with the name of that cache; <<>>
\* (undefined) when none does.
match(storage, url) ==
    IF Holding(storage, url) = {} THEN <<>>
    ELSE LET i == Min(Holding(storage, url)) IN
         [name |-> storage[i][1], response |-> Entry(storage[i][2], url)]

\* Every key, the current one included.
Every(names, name) == {names[i] : i \in DOMAIN names}

\* keys.filter(k => k !== CACHE_NAME)
Others(names, name) == {names[i] : i \in {k \in DOMAIN names : names[k] # name}}

\* cache.addAll(urls): the response to each URL put under it; addAll
\* rejects unless every response has an ok status.
RECURSIVE addAll(_, _, _, _)
addAll(storage, name, urls, serial) ==
    IF urls = <<>> THEN storage
    ELSE put(addAll(storage, name, SubSeq(urls, 1, Len(urls) - 1), serial),
             name, urls[Len(urls)], [serial |-> serial, status |-> 200])

(***************************************************************************)
(* The life of the versions and their fetch events.  sw.state is the state *)
(* of each version, sw.controller the version the page is controlled by,   *)
(* sw.caches the CacheStorage, sw.doomed the caches the activate handler   *)
(* is still to delete once sw.listed says caches.keys() has resolved,      *)
(* sw.cleanup how the activate handler of each version ended, sw.events    *)
(* the fetch events waiting for the network, sw.puts the cache writes not  *)
(* yet made, sw.answered the last response given to the page, sw.clock the *)
(* number of responses of the network so far, sw.issued the number of      *)
(* fetch events so far, sw.newest the serial of the last response of the   *)
(* network to each data file.                                              *)
(***************************************************************************)
MaxFetches == 2
MaxInFlight == 2

swFrame == <<files, disk, db, base, pc, season_id, first, runs, kills, killed_at,
             call, ret, calls, genVars, S, data, view, modal>>

\* The page before it registers a worker.
InitSW ==
    /\ sw = [state |-> [version \in Versions |-> "parsed"],
             cleanup |-> [version \in Versions |-> "none"],
             controller |-> 0, caches |-> <<>>, listed |-> FALSE, doomed |-> {},
             events |-> {}, puts |-> {}, answered |-> <<>>,
             clock |-> 0, issued |-> 0, newest |-> <<>>]
    /\ S = <<>> /\ data = <<>> /\ view = <<>> /\ modal = <<>>
    /\ call = <<>> /\ ret = <<>> /\ calls = 0
    /\ NotGenerated
    /\ files = NoFiles /\ disk = EmptyDb /\ db = EmptyDb /\ base = EmptyDb
    /\ pc = "idle" /\ season_id = 0 /\ first = EmptyDb
    /\ runs = 0 /\ kills = 0 /\ killed_at = ""

\* The install event: e.waitUntil(caches.open(CACHE_NAME).then(...)) and
\* self.skipWaiting().  The later version is found while the first is the
\* active one.
Install ==
    \E version \in Versions :
        /\ sw.state[version] = "parsed"
        /\ version = 1 \/ sw.state[1] = "activated"
        /\ sw' = [sw EXCEPT !.state[version] = "installing",
                            !.caches = open(sw.caches, CACHE_NAME(version))]
        /\ UNCHANGED swFrame

\* c.addAll(ASSETS) resolves: the version is installed.
AddAllResolves ==
    \E version \in Versions :
        /\ sw.state[version] = "installing"
        /\ sw' = [sw EXCEPT !.state[version] = "installed",
                            !.clock = sw.clock + 1,
                            !.caches = addAll(sw.caches, CACHE_NAME(version), ASSETS,
                                              sw.clock + 1)]
        /\ UNCHANGED swFrame

\* c.addAll(ASSETS) rejects, an asset being out of reach or not ok: the
\* install fails and the version is discarded.
AddAllRejects ==
    \E version \in Versions :
        /\ sw.state[version] = "installing"
        /\ sw' = [sw EXCEPT !.state[version] = "redundant"]
        /\ UNCHANGED swFrame

\* skipWaiting() was called: the installed version is activated although
\* the version before it controls the page.  That version is terminated,
\* with the events it has not answered and the cache writes it has not yet
\* made.  The activate event: caches.keys() is called, clients.claim() makes
\* the version the controller.
Activate ==
    \E version \in Versions :
        /\ sw.state[version] = "installed"
        /\ sw' = [sw EXCEPT
                !.state = [v \in Versions |->
                            IF v = version THEN "activating"
                            ELSE IF sw.state[v] = "activated" THEN "redundant"
                            ELSE sw.state[v]],
                !.controller = version,
                !.listed = FALSE, !.doomed = {},
                !.events = {}, !.puts = {}]
        /\ UNCHANGED swFrame

\* caches.keys() resolves: caches.delete is called for every other key.
KeysResolve ==
    \E version \in Versions :
        /\ sw.state[version] = "activating"
        /\ ~sw.listed
        /\ sw' = [sw EXCEPT !.listed = TRUE,
                            !.doomed = Others(keys(sw.caches), CACHE_NAME(version))]
        /\ UNCHANGED swFrame

\* One caches.delete(k) of the Promise.all resolves.
Delete ==
    \E name \in sw.doomed :
        /\ sw' = [sw EXCEPT !.doomed = sw.doomed \ {name},
                            !.caches = delete(sw.caches, name)]
        /\ UNCHANGED swFrame

\* The promise given to e.waitUntil resolves: the version is activated.
Activated ==
    \E version \in Versions :
        /\ sw.state[version] = "activating"
        /\ sw.listed /\ sw.doomed = {}
        /\ sw' = [sw EXCEPT !.state[version] = "activated",
                            !.cleanup[version] = "done"]
        /\ UNCHANGED swFrame

\* The activate handler does not run to its end (the browser is closed or
\* the worker terminated while it runs): the version is activated at its
\* next start all the same, and activate is not dispatched again.
CutShort ==
    \E version \in Versions :
        /\ sw.state[version] = "activating"
        /\ ~(sw.listed /\ sw.doomed = {})
        /\ sw' = [sw EXCEPT !.state[version] = "activated",
                            !.cleanup[version] = "cut",
                            !.listed = TRUE, !.doomed = {}]
        /\ UNCHANGED swFrame

\* What the page is given, and how it came about.
Answer(event, source, found, settled, stored) ==
    [version |-> event.version, url |-> event.url, source |-> source,
     name |-> IF found = <<>> THEN "" ELSE found.name,
     response |-> IF found = <<>> THEN <<>> ELSE found.response,
     settled |-> settled, stored |-> stored]

\* A fetch event of the page, dispatched to the controller once it is
\* activated.  A data file (later version): fetch(e.request) is called.
\* Anything else: caches.match(e.request), and the response found is the
\* answer; fetch(e.request) is called when none is found.
FetchEvent ==
    \E url \in Requests :
        LET version == sw.controller
            event == [id |-> sw.issued + 1, version |-> version, url |-> url]
            cached == match(sw.caches, url)
        IN /\ sw.controller # 0
           /\ sw.state[sw.controller] = "activated"
           /\ sw.issued < MaxFetches
           /\ Cardinality(sw.events) < MaxInFlight
           /\ sw' = IF ~NetworkFirst(version, url) /\ cached # <<>>
                    THEN [sw EXCEPT !.issued = sw.issued + 1,
                            !.answered = Answer(event, "cache", cached, "none", FALSE)]
                    ELSE [sw EXCEPT !.issued = sw.issued + 1,
                            !.events = sw.events \cup {event}]
           /\ UNCHANGED swFrame

\* fetch(e.request) resolves, with any status.  The response is the answer;
\* a clone is put in the cache of CACHE_NAME, detached from the answer:
\* always for a data file (later version), else unless the URL does not
\* start with the origin.
FetchResolves ==
    \E event \in sw.events, status \in Statuses :
        LET resp == [serial |-> sw.clock + 1, status |-> status]
            found == [name |-> "", response |-> resp]
            cloned == NetworkFirst(event.version, event.url)
                        \/ startsWith(event.url, Origin)
            write == [id |-> event.id, name |-> CACHE_NAME(event.version),
                         url |-> event.url, response |-> resp]
        IN /\ sw' = [sw EXCEPT
                    !.clock = sw.clock + 1,
                    !.events = sw.events \ {event},
                    !.puts = IF cloned THEN sw.puts \cup {write} ELSE sw.puts,
                    !.newest = IF NetworkFirst(event.version, event.url)
                               THEN DictSet(sw.newest, event.url, sw.clock + 1)
                               ELSE sw.newest,
                    !.answered = Answer(event, "network", found, "resolved", cloned)]
           /\ UNCHANGED swFrame

\* fetch(e.request) rejects.  A data file (later version):
\* caches.match(e.request).  Anything else: caches.match('./index.html').
\* What is found is the answer; undefined is a network error for the page.
FetchRejects ==
    \E event \in sw.events :
        LET first_ == NetworkFirst(event.version, event.url)
            cached == IF first_ THEN match(sw.caches, event.url)
                      ELSE match(sw.caches, Resolve(<<"/", "index.html">>))
            source == IF cached = <<>> THEN "error"
                      ELSE IF first_ THEN "cache" ELSE "root"
        IN /\ sw' = [sw EXCEPT
                    !.events = sw.events \ {event},
                    !.answered = Answer(event, source, cached, "rejected", FALSE)]
           /\ UNCHANGED swFrame

\* caches.open(CACHE_NAME).then(c => c.put(e.request, clone)) of one answer
\* comes to its end.
Put ==
    \E write \in sw.puts :
        /\ sw' = [sw EXCEPT
                    !.puts = sw.puts \ {write},
                    !.caches = put(open(sw.caches, write.name), write.name,
                                   write.url, write.response)]
        /\ UNCHANGED swFrame

NextSW ==
    \/ Install \/ AddAllResolves \/ AddAllRejects
    \/ Activate \/ KeysResolve \/ Delete \/ Activated \/ CutShort
    \/ FetchEvent \/ FetchResolves \/ FetchRejects \/ Put

SpecSW == InitSW /\ [][NextSW]_vars

(***************************************************************************)
(* The offline cache.                                                      *)
(***************************************************************************)
\* The step dispatches a fetch event; the URL it asks for.
Dispatched == sw'.issued = sw.issued + 1
DispatchedUrl ==
    IF sw'.events # sw.events THEN (CHOOSE e \in sw'.events \ sw.events : TRUE).url
    ELSE sw'.answered.url

\* The step is the end of the network fetch of an event: with a response,
\* or with none.
Settled == sw.events # sw'.events /\ sw'.issued = sw.issued /\ sw'.state = sw.state
Resolved == Settled /\ sw'.clock = sw.clock + 1
Rejected == Settled /\ sw'.clock = sw.clock
SettledEvent == CHOOSE e \in sw.events \ sw'.events : TRUE

\* The cache write of the response just given to the page is on its way.
WriteIssued ==
    \E write \in sw'.puts \ sw.puts :
        /\ write.name = CACHE_NAME(SettledEvent.version)
        /\ write.url = SettledEvent.url
        /\ write.response = sw'.answered.response

\* The page is given the response the network has just sent.
NetworkAnswer ==
    /\ sw'.answered.source = "network"
    /\ sw'.answered.url = SettledEvent.url
    /\ sw'.answered.response.serial = sw'.clock

\* C23: for a request for a data file, when the network fetch resolves, with
\* any status, the page is given the response of the network and a copy of
\* it is on its way to the current cache under the request; when the network
\* fetch rejects, the page is given the response the caches held for the
\* request if there is one, and the failure otherwise.
C23_DataFileNetworkFirst ==
    [][/\ (Resolved /\ isDataFile(SettledEvent.url)) => (NetworkAnswer /\ WriteIssued)
       /\ (Rejected /\ isDataFile(SettledEvent.url)) =>
            IF match(sw.caches, SettledEvent.url) # <<>>
            THEN /\ sw'.answered.source = "cache"
                 /\ sw'.answered.response = match(sw.caches, SettledEvent.url).response
            ELSE sw'.answered.source = "error"]_vars

\* What a static request is given when it is dispatched, and when the
\* network fails it.
StaticFromCache ==
    (Dispatched /\ ~isDataFile(DispatchedUrl)) =>
        IF match(sw.caches, DispatchedUrl) # <<>>
        THEN /\ sw'.events = sw.events
             /\ sw'.answered.source = "cache"
             /\ sw'.answered.url = DispatchedUrl
             /\ sw'.answered.response = match(sw.caches, DispatchedUrl).response
        ELSE sw'.events # sw.events
StaticFallsBack ==
    (Rejected /\ ~isDataFile(SettledEvent.url)) =>
        /\ sw'.answered.source = "root"
        /\ sw'.answered.response = match(sw.caches, Resolve(<<"/", "index.html">>)).response

\* C24 (as amended): a static request is given the cached response if the
\* caches hold one, and no network fetch is made; otherwise it is given the
\* response of the network, and a copy is on its way to the current cache if
\* the URL of the request begins with the origin of the worker, and none if
\* it does not; when the network gives no response it is given the cached
\* root document.
C24_StaticCacheFirst ==
    [][/\ StaticFromCache
       /\ (Resolved /\ ~isDataFile(SettledEvent.url)) =>
            /\ NetworkAnswer
            /\ IF SettledEvent.url[1] = Origin THEN WriteIssued
               ELSE sw'.puts = sw.puts
       /\ StaticFallsBack]_vars

\* C24 (as stated): a static request is given the cached response if there
\* is one, and no network fetch is made; otherwise it is given the response
\* of the network and a copy is stored in the current cache; when neither
\* gives a response it is given the cached root document.
C24_StaticAlwaysStored ==
    [][/\ StaticFromCache
       /\ (Resolved /\ ~isDataFile(SettledEvent.url)) => (NetworkAnswer /\ WriteIssued)
       /\ StaticFallsBack]_vars

\* An image of the origin, not in any cache, was fetched and its copy
\* written to the current cache.
C24_ImageFetchedAndStored ==
    /\ sw.answered # <<>>
    /\ sw.answered.url = Resolve(<<"/", "icon.png">>)
    /\ sw.answered.source = "network"
    /\ sw.puts = {}
    /\ match(sw.caches, sw.answered.url) # <<>>
    /\ match(sw.caches, sw.answered.url).name = CACHE_NAME(sw.answered.version)
    /\ match(sw.caches, sw.answered.url).response = sw.answered.response

\* The cache of a version as install wrote it: the assets and nothing else.
AsInstalled(version) ==
    \E serial \in 1..sw'.clock :
        sw'.caches = addAll(open(<<>>, CACHE_NAME(version)), CACHE_NAME(version),
                            ASSETS, serial)

\* C25: when the activation of a version has completed, the promise of its
\* activate handler resolved, every cache of another name has been deleted
\* and the cache named CACHE_NAME exists with the entries written at install.
C25_ActivationLeavesOwnCache ==
    [][\A version \in Versions :
        (sw.state[version] = "activating" /\ sw'.state[version] = "activated"
            /\ sw'.cleanup[version] = "done") => AsInstalled(version)]_vars

\* The later version has completed its activation after the first one had
\* been the active one and had answered a request.
C25_SecondVersionActivated ==
    /\ sw.state[2] = "activated"
    /\ sw.cleanup[2] = "done"
    /\ sw.issued > 0
    /\ keys(sw.caches) = <<CACHE_NAME(2)>>

\* C26: a response a version serves from a cache was stored under the
\* CACHE_NAME of that version, never under the cache name of a version
\* before it.
C26_ServedFromOwnCache ==
    (sw.answered # <<>> /\ sw.answered.source \in {"cache", "root"}) =>
        sw.answered.name = CACHE_NAME(sw.answered.version)

\* C27: every response written to a cache answers a request to the origin
\* of the worker; no cache write is made or on its way for another request.
C27_OnlySameOriginCached ==
    /\ \A write \in sw.puts : SameOrigin(write.url)
    /\ \A i \in DOMAIN sw.caches : \A k \in DOMAIN sw.caches[i][2] :
            SameOrigin(sw.caches[i][2][k][1])

\* C29: once no request is waiting for the network and every cache write
\* has been made, the current cache holds, under each data file fetched, the
\* response of the fetch that resolved last.
C29_NewestResponseStays ==
    (sw.events = {} /\ sw.puts = {}) =>
        \A k \in DOMAIN sw.newest :
            Entry(Entry(sw.caches, CACHE_NAME(2)), sw.newest[k][1]).serial = sw.newest[k][2]
====
